---- MODULE Spec2Model ----
(***************************************************************************)
(* Model of the feed/search ranking path of the blog platform backend:     *)
(* routers/blogs.py (get_blogs, search_blogs) over the document store.     *)
(*                                                                         *)
(* Text is modelled as sets of lower-case word tokens, so the case-        *)
(* insensitive regex match of search_blogs is token membership.            *)
(* Floating-point scores are modelled as exact fractions [num, den].       *)
(*                                                                         *)
(* recommendation_service (calculate_content_similarity,                   *)
(* calculate_engagement_score, get_all_blogs_sorted_by_interest) is        *)
(* imported by routers/blogs.py but is not among the sources; it is        *)
(* modelled from sections 4.1 to 4.4 of the specification.  The same holds *)
(* for the response models the router is written against: models.py in    *)
(* the sources belongs to another revision (it has no ChangePasswordRequest*)
(* or ProfileUpdateRequest, which routers/auth.py imports, and its         *)
(* BlogCreate has no tag_ids, which create_blog reads), so BlogResponse is *)
(* modelled as accepting the fields search_blogs passes to it.             *)
(***************************************************************************)
EXTENDS Integers, Sequences, FiniteSets, TLC

\* blogs, tags, user_interests, comments, likes, images, users: the
\* collections of the document store, each a sequence of documents.
\* issued: the refresh tokens created so far, in order of creation.
\* calls: the handler calls in progress, each with its position and locals.
\* response, recommendations: the response and the ranked list of the call
\* that was served last.
VARIABLES blogs, tags, user_interests, comments, likes, images, users, issued,
          calls, response, recommendations, blog_summaries

vars == <<blogs, tags, user_interests, comments, likes, images, users, issued,
          calls, response, recommendations, blog_summaries>>

(* ------------------------------ bounds -------------------------------- *)

\* Largest number of blog documents in the store.
MaxBlogs == 3

\* Longest stored interest list.
MaxInterests == 4

\* Largest page_size below the defaults that a request tries.
MaxPageSize == 2

\* Largest likes_count / comment_count of the engagement probe.
MaxCount == 52

(* --------------------------- small helpers ---------------------------- *)

Min(a, b) == IF a <= b THEN a ELSE b

Range(s) == {s[i] : i \in DOMAIN s}

\* doc.get(field, default)
Get(doc, field, default) == IF field \in DOMAIN doc THEN doc[field] ELSE default

\* The document without the given fields.
Without(doc, fields) == [k \in DOMAIN doc \ fields |-> doc[k]]

RECURSIVE Concat(_)
\* The concatenation of a sequence of sequences.
Concat(ss) == IF ss = <<>> THEN <<>> ELSE Head(ss) \o Concat(Tail(ss))

\* Every ordering of the elements of sequence s.
Orderings(s) ==
    LET n == Len(s)
        P == {p \in [1..n -> 1..n] : \A i, j \in 1..n : p[i] = p[j] => i = j}
    IN  {[i \in 1..n |-> s[p[i]]] : p \in P}

\* Python's s[start:end] for 0 <= start <= end.
PySlice(s, start, end) == SubSeq(s, start + 1, Min(end, Len(s)))

\* filter(pred) keeping the order of s.
RECURSIVE SelectIdx(_, _)
SelectIdx(s, keep) ==
    IF s = <<>> THEN <<>>
    ELSE LET rest == SelectIdx(SubSeq(s, 1, Len(s) - 1), keep)
         IN  IF s[Len(s)]._id \in keep THEN Append(rest, s[Len(s)]) ELSE rest

(* ------------------------- the document store ------------------------- *)

\* A count field that the document does not have (create_blog writes none).
Absent == -1

\* The user of the requests; NoUser is an unauthenticated request.
NoUser == "anonymous"
TheUser == "u1"

\* Interest terms in the order a user lists them.
InterestTerms == <<"technology", "travel", "food", "health", "music", "art">>

InterestList(k) == SubSeq(InterestTerms, 1, k)

\* db.tags: tag id -> name.
TagNames == <<"travel">>

\* The fields of a blog document that the requests read, drawn from small
\* sets.  A document is plain (one title word, no body word, no tag,
\* published, no likes) or differs from a plain one in exactly one of
\* body, tag, published flag and likes.
TitleWords == {{"technology"}, {"cooking"}}
BodyWords == {{}, {"technology"}}
TagIdLists == {<<>>, <<1>>}
LikeValues == {Absent, 100}
CommentValues == {Absent, 50}

BlogFields ==
    [title : TitleWords, blog_body : BodyWords, tag_ids : TagIdLists,
     published : BOOLEAN, likes_count : LikeValues, comment_count : CommentValues]

Extras(f) ==
    (IF f.blog_body # {} THEN 1 ELSE 0) + (IF f.tag_ids # <<>> THEN 1 ELSE 0)
    + (IF ~f.published THEN 1 ELSE 0) + (IF f.likes_count # Absent THEN 1 ELSE 0)

PlainPool == {f \in BlogFields : Extras(f) = 0}

BlogPool ==
    PlainPool \cup
    {f \in BlogFields :
        Extras(f) = 1 /\ f.title = {"cooking"} /\ f.comment_count = Absent}

\* The i-th inserted document: _id and created_at grow with insertion.
BlogDoc(i, f) ==
    [_id |-> i, user_id |-> TheUser, created_at |-> i, title |-> f.title,
     blog_body |-> f.blog_body,
     tag_ids |-> f.tag_ids, published |-> f.published,
     likes_count |-> f.likes_count, comment_count |-> f.comment_count]

\* Stores of up to MaxBlogs plain documents.
PlainStores ==
    UNION {{[i \in 1..n |-> BlogDoc(i, fs[i])] : fs \in [1..n -> PlainPool]} :
           n \in 0..MaxBlogs}

\* Stores of up to MaxBlogs documents, at most one of them not plain.
Stores ==
    UNION {{[i \in 1..n |-> BlogDoc(i, fs[i])] :
              fs \in {g \in [1..n -> BlogPool] :
                        Cardinality({i \in 1..n : Extras(g[i]) > 0}) <= 1}} :
           n \in 0..MaxBlogs}

InterestDoc(k) == [user_id |-> TheUser, interests |-> InterestList(k)]

InterestStores == {<<>>} \cup {<<InterestDoc(k)>> : k \in 0..MaxInterests}

\* The handler calls that can be in progress at once.
Procs == {"p1", "p2"}

\* No handler call is in progress.
NoCalls == [p \in Procs |-> <<>>]

\* The comments and likes of the store of the paging runs: one comment and
\* one like by the user on the first blog, when there is one.
SeedComments(store) ==
    IF store = <<>> THEN <<>>
    ELSE <<[_id |-> 1, blog_id |-> store[1]._id, user_id |-> TheUser]>>

SeedLikes(store) ==
    IF store = <<>> THEN <<>>
    ELSE <<[_id |-> 1, blog_id |-> store[1]._id, user_id |-> TheUser, isLiked |-> TRUE]>>

\* The collections and calls the ranking requests do not touch.
NoOtherState ==
    images = <<>> /\ users = <<>> /\ issued = <<>> /\ calls = NoCalls /\ blog_summaries = <<>>

\* The store before the requests of the paging runs.
Init ==
    /\ blogs \in PlainStores
    /\ tags = TagNames
    /\ user_interests \in {<<>>, <<InterestDoc(1)>>}
    /\ comments = SeedComments(blogs)
    /\ likes = SeedLikes(blogs)
    /\ NoOtherState
    /\ response = <<>>
    /\ recommendations = <<>>

\* The store before the requests of the ranking runs.
RankInit ==
    /\ blogs \in Stores
    /\ tags = TagNames
    /\ user_interests \in InterestStores
    /\ comments = <<>>
    /\ likes = <<>>
    /\ NoOtherState
    /\ response = <<>>
    /\ recommendations = <<>>

\* Documents some of whose fields are absent.  The optional fields of a
\* blog document are title, blog_body and tag_ids; _id is its identifier.
OptionalFields == {"title", "blog_body", "tag_ids"}

SparsePool ==
    {f \in BlogFields :
        /\ f.published /\ f.likes_count = Absent
        /\ \/ f.title = {"technology"} /\ f.blog_body = {} /\ f.tag_ids = <<>>
           \/ f.title = {"cooking"} /\ f.blog_body = {"technology"}
              /\ f.tag_ids = <<1>> /\ f.comment_count = Absent}

\* Stores of up to MaxBlogs documents, at most one of them without the
\* fields of one of the given sets.
SparseStores(absent_sets) ==
    UNION {{[i \in 1..n |-> Without(BlogDoc(i, fs[i]), gone[i])] :
              fs \in [1..n -> SparsePool],
              gone \in {g \in [1..n -> absent_sets \cup {{}}] :
                          Cardinality({i \in 1..n : g[i] # {}}) <= 1}} :
           n \in 0..MaxBlogs}

\* The store before the requests of the runs over documents with absent
\* optional fields.
FieldInit ==
    /\ blogs \in SparseStores(SUBSET OptionalFields)
    /\ tags = TagNames
    /\ user_interests \in {<<>>, <<InterestDoc(2)>>}
    /\ comments = <<>>
    /\ likes = <<>>
    /\ NoOtherState
    /\ response = <<>>
    /\ recommendations = <<>>

\* The store before the requests of the runs over documents one of which
\* may lack its identifier.
CandidateInit ==
    /\ blogs \in SparseStores({{"_id"}, {"_id", "title"}})
    /\ tags = TagNames
    /\ user_interests \in {<<>>, <<InterestDoc(2)>>}
    /\ comments = <<>>
    /\ likes = <<>>
    /\ NoOtherState
    /\ response = <<>>
    /\ recommendations = <<>>

(* ------------------- recommendation_service (scoring) ------------------ *)

\* A score is an exact fraction num/den with den > 0.
Frac(n, d) == [num |-> n, den |-> d]

ScoreEq(a, b) == a.num * b.den = b.num * a.den
ScoreGt(a, b) == a.num * b.den > b.num * a.den
ScoreGe(a, b) == a.num * b.den >= b.num * a.den

\* blog.get(field, 0) on a count field.
GetCount(v) == IF v = Absent THEN 0 ELSE v

\* Section 4.2: a weighted sum of the two counts, comments weighing double,
\* folded through min-with-cap.
CommentWeight == 2
EngagementCap == 100

EngagementUncapped(blog) ==
    Frac(GetCount(blog.likes_count) + CommentWeight * GetCount(blog.comment_count),
         EngagementCap)

calculate_engagement_score(blog) ==
    Frac(Min(GetCount(blog.likes_count) + CommentWeight * GetCount(blog.comment_count),
             EngagementCap),
         EngagementCap)

\* Section 4.1: the fraction of the interest terms found among the words of
\* title, body and tags (empty tokens discarded); 0 for no interests.
calculate_content_similarity(interests, blog_body, title, tag_names) ==
    LET profile == (title \cup blog_body \cup Range(tag_names)) \ {""}
        found == {i \in DOMAIN interests : interests[i] \in profile}
    IN  IF interests = <<>> THEN Frac(0, 1)
        ELSE Frac(Cardinality(found), Len(interests))

(* ------------------------- routers/blogs.py --------------------------- *)

\* Query(1, ge=1) and Query(10, ge=1, le=100): the declared default stands
\* in for a parameter the request leaves out.
Omitted == -100
DefaultPage == 1
DefaultPageSize == 10
MaxAllowedPageSize == 100

PageParam(page) == IF page = Omitted THEN DefaultPage ELSE page
PageSizeParam(page_size) == IF page_size = Omitted THEN DefaultPageSize ELSE page_size

PageOk(page) == page >= 1

PageSizeOkNoUpper(page_size) == page_size >= 1
PageSizeOk(page_size) == page_size >= 1 /\ page_size <= MaxAllowedPageSize

\* An optional value: <<>> is None, <<x>> is x.
None == <<>>
Some(x) == <<x>>

\* db.user_interests.find_one({"user_id": ...}): the first matching document.
FindInterestsDoc(user) ==
    LET hits == {i \in DOMAIN user_interests : user_interests[i].user_id = user}
    IN  IF hits = {} THEN None
        ELSE Some(user_interests[CHOOSE i \in hits : \A j \in hits : i <= j])

\* The handler's user_interests: None for an anonymous request or a user
\* without a document, else the document's list.
LookupInterests(current_user) ==
    IF current_user = NoUser THEN None
    ELSE LET doc == FindInterestsDoc(current_user)
         IN  IF doc = None THEN None ELSE Some(doc[1].interests)

\* Python truth of the handler's user_interests: None and [] are false.
HasInterestsNotNone(user_interests_opt) == user_interests_opt # None
HasInterests(user_interests_opt) ==
    user_interests_opt # None /\ user_interests_opt[1] # <<>>

\* tag_names_map.get(tag_id, '') for each tag id of the blog.
BlogTagNames(blog) ==
    LET tag_ids == Get(blog, "tag_ids", <<>>)
    IN  [k \in DOMAIN tag_ids |->
            IF tag_ids[k] \in DOMAIN tags THEN tags[tag_ids[k]] ELSE ""]

\* A blend that weighs similarity and engagement equally.
BlendEqualWeights(content_score, engagement_score) ==
    Frac(5 * content_score.num * engagement_score.den
           + 5 * engagement_score.num * content_score.den,
         10 * content_score.den * engagement_score.den)

\* content_score * 0.8 + engagement_score * 0.2
Blend(content_score, engagement_score) ==
    Frac(8 * content_score.num * engagement_score.den
           + 2 * engagement_score.num * content_score.den,
         10 * content_score.den * engagement_score.den)

TotalScoreAlwaysBlend(blog, user_interests_opt) ==
    IF HasInterestsNotNone(user_interests_opt)
    THEN Blend(calculate_content_similarity(user_interests_opt[1],
                                            Get(blog, "blog_body", {}),
                                            Get(blog, "title", {}), BlogTagNames(blog)),
               calculate_engagement_score(blog))
    ELSE calculate_engagement_score(blog)

\* The relevance score of one candidate.
TotalScore(blog, user_interests_opt) ==
    IF HasInterests(user_interests_opt)
    THEN Blend(calculate_content_similarity(user_interests_opt[1],
                                            Get(blog, "blog_body", {}),
                                            Get(blog, "title", {}), BlogTagNames(blog)),
               calculate_engagement_score(blog))
    ELSE calculate_engagement_score(blog)

\* BlogResponse(**blog_response_data): the fields the handler passes.
BlogResponse(blog) ==
    [id |-> blog._id, user_id |-> blog.user_id, title |-> Get(blog, "title", {}),
     blog_body |-> Get(blog, "blog_body", {}), tag_ids |-> Get(blog, "tag_ids", <<>>),
     published |-> Get(blog, "published", FALSE),
     created_at |-> Get(blog, "created_at", None), tags |-> BlogTagNames(blog)]

\* blog["_id"], blog["user_id"]: a document without one of them raises KeyError.
HasIdentity(blog) == "_id" \in DOMAIN blog /\ "user_id" \in DOMAIN blog

\* The candidates without title are left out.
RecommendTitled(candidates, user_interests_opt) ==
    LET HasTitle(blog) == "title" \in DOMAIN blog
        titled == SelectSeq(candidates, HasTitle)
    IN  [i \in DOMAIN titled |->
            [blog |-> BlogResponse(titled[i]),
             relevance_score |-> TotalScore(titled[i], user_interests_opt)]]

\* One BlogRecommendationResponse per candidate, in the cursor's order.
Recommend(candidates, user_interests_opt) ==
    [i \in DOMAIN candidates |->
        [blog |-> BlogResponse(candidates[i]),
         relevance_score |-> TotalScore(candidates[i], user_interests_opt)]]

\* The list left in the order it was built.
UnsortedRecs(recs) == recs

\* list.sort(key=relevance_score, reverse=True): descending and stable, so
\* equal scores keep the order they had.
RECURSIVE SortByRelevance(_)
SortByRelevance(recs) ==
    IF recs = <<>> THEN <<>>
    ELSE LET n == Len(recs)
             x == recs[n]
             sorted == SortByRelevance(SubSeq(recs, 1, n - 1))
             before == {i \in DOMAIN sorted :
                          ScoreGe(sorted[i].relevance_score, x.relevance_score)}
             k == Cardinality(before)
         IN  SubSeq(sorted, 1, k) \o <<x>> \o SubSeq(sorted, k + 1, Len(sorted))

\* start_idx = (page - 1) * page_size; recommendations[start_idx:end_idx]
PaginateFromNextPage(recs, page, page_size) ==
    PySlice(recs, page * page_size, page * page_size + page_size)

PaginateClamped(recs, page, page_size) ==
    LET last == IF Len(recs) = 0 THEN 1 ELSE (Len(recs) + page_size - 1) \div page_size
        p == Min(page, last)
    IN  PySlice(recs, (p - 1) * page_size, (p - 1) * page_size + page_size)

Paginate(recs, page, page_size) ==
    LET start_idx == (page - 1) * page_size
        end_idx == start_idx + page_size
    IN  PySlice(recs, start_idx, end_idx)

\* total_pages = (total_count + page_size - 1) // page_size
TotalPagesRoundedDown(total_count, page_size) == total_count \div page_size

TotalPages(total_count, page_size) == (total_count + page_size - 1) \div page_size

\* The filter without the published flag.
MatchesSearchAnyStatus(blog, query) ==
    query \in Get(blog, "title", {}) \/ query \in Get(blog, "blog_body", {})

\* search_filter: published, and the query matches title or blog_body.
MatchesSearch(blog, query) ==
    /\ Get(blog, "published", FALSE)
    /\ query \in Get(blog, "title", {}) \/ query \in Get(blog, "blog_body", {})

\* The request of search_blogs, with its query.
SearchRequest(query, page, page_size, current_user) ==
    [query |-> query, page |-> page, page_size |-> page_size,
     current_user |-> current_user]

\* The request of get_blogs, with its filters.
FeedRequest(page, page_size, published_only, tag_id, current_user) ==
    [published_only |-> published_only, tag_id |-> tag_id, page |-> page,
     page_size |-> page_size, current_user |-> current_user]

\* The response FastAPI sends when the handler raises an exception that is
\* no HTTPException.
ServerError(op, request) == [status |-> 500, op |-> op, request |-> request]

\* The rejection FastAPI sends when a Query constraint fails.
Rejected(op, request) == [status |-> 422, op |-> op, request |-> request]

\* PaginatedBlogsResponse(...)
PaginatedBlogsResponse(op, request, blogs_page, total_count, page, page_size, total_pages) ==
    [status |-> 200, op |-> op, request |-> request,
     blogs |-> blogs_page, total_count |-> total_count, page |-> page,
     page_size |-> page_size, total_pages |-> total_pages]

(* --------- recommendation_service.get_all_blogs_sorted_by_interest ----- *)

NoTag == 0

\* Section 6: the candidates of the feed, by published flag and tag.
MatchesFeed(blog, published_only, tag_id) ==
    /\ published_only => Get(blog, "published", FALSE)
    /\ tag_id # NoTag => tag_id \in Range(Get(blog, "tag_ids", <<>>))

\* Section 4.3: score descending, ties by creation timestamp descending.
RankedBefore(a, b) ==
    \/ ScoreGt(a.relevance_score, b.relevance_score)
    \/ /\ ScoreEq(a.relevance_score, b.relevance_score)
       /\ a.blog.created_at > b.blog.created_at

RECURSIVE SortRanked(_)
SortRanked(recs) ==
    IF recs = <<>> THEN <<>>
    ELSE LET n == Len(recs)
             x == recs[n]
             sorted == SortRanked(SubSeq(recs, 1, n - 1))
             k == Cardinality({i \in DOMAIN sorted : RankedBefore(sorted[i], x)})
         IN  SubSeq(sorted, 1, k) \o <<x>> \o SubSeq(sorted, k + 1, Len(sorted))

\* Section 4.4: the 1-based page of the ranked sequence.
ServicePage(ranked, page, page_size) ==
    PySlice(ranked, (page - 1) * page_size, (page - 1) * page_size + page_size)

\* Sections 4.3 and 4.4: rank the candidates, slice the page, count them.
get_all_blogs_sorted_by_interest(candidates, user_interests_opt, page, page_size) ==
    LET ranked == SortRanked(Recommend(SelectSeq(candidates, HasIdentity),
                                       user_interests_opt))
    IN  [ranked |-> ranked,
         recommendations |-> ServicePage(ranked, page, page_size),
         total_count |-> Len(ranked)]

(* ------------------------------ requests ------------------------------ *)

Queries == {"technology", "cooking"}
Users == {NoUser, TheUser}
PageInputs == {Omitted} \cup 0..(MaxBlogs + 1)
PageSizeInputs ==
    {Omitted, MaxAllowedPageSize, MaxAllowedPageSize + 1} \cup 0..MaxPageSize
TagFilters == {NoTag} \cup DOMAIN TagNames

\* search_blogs counting, on every matching blog, that it was found.
SearchBlogsCountingHits(query, page_in, page_size_in, current_user) ==
    LET page == PageParam(page_in)
        page_size == PageSizeParam(page_size_in)
        request == SearchRequest(query, page, page_size, current_user)
        Matches(blog) == MatchesSearch(blog, query)
    IN  /\ response = <<>>
        /\ IF ~(PageOk(page) /\ PageSizeOk(page_size))
           THEN /\ response' = <<Rejected("search_blogs", request)>>
                /\ recommendations' = <<>>
                /\ blogs' = blogs
           ELSE \E all_matching_blogs \in Orderings(SelectSeq(blogs, Matches)) :
                  LET interests == LookupInterests(current_user)
                      sorted == SortByRelevance(Recommend(all_matching_blogs, interests))
                      total_count == Len(sorted)
                  IN  /\ recommendations' = sorted
                      /\ response' =
                           <<PaginatedBlogsResponse("search_blogs", request,
                                Paginate(sorted, page, page_size), total_count,
                                page, page_size, TotalPages(total_count, page_size))>>
                      /\ blogs' = [i \in DOMAIN blogs |->
                            IF Matches(blogs[i])
                            THEN [k \in DOMAIN blogs[i] \cup {"hits"} |->
                                    IF k = "hits" THEN 1 ELSE blogs[i][k]]
                            ELSE blogs[i]]
        /\ UNCHANGED <<tags, user_interests, comments, likes, images, users, issued, calls,
                   blog_summaries>>

\* GET /blogs/search/{query}
SearchBlogs(query, page_in, page_size_in, current_user) ==
    LET page == PageParam(page_in)
        page_size == PageSizeParam(page_size_in)
        request == SearchRequest(query, page, page_size, current_user)
        Matches(blog) == MatchesSearch(blog, query)
    IN  /\ response = <<>>
        /\ IF ~(PageOk(page) /\ PageSizeOk(page_size))
           THEN /\ response' = <<Rejected("search_blogs", request)>>
                /\ recommendations' = <<>>
           ELSE \E all_matching_blogs \in Orderings(SelectSeq(blogs, Matches)) :
                  IF \E i \in DOMAIN all_matching_blogs :
                        ~HasIdentity(all_matching_blogs[i])
                  THEN /\ response' = <<ServerError("search_blogs", request)>>
                       /\ recommendations' = <<>>
                  ELSE LET interests == LookupInterests(current_user)
                           sorted == SortByRelevance(
                                         Recommend(all_matching_blogs, interests))
                           total_count == Len(sorted)
                       IN  /\ recommendations' = sorted
                           /\ response' =
                                <<PaginatedBlogsResponse("search_blogs", request,
                                     Paginate(sorted, page, page_size), total_count,
                                     page, page_size,
                                     TotalPages(total_count, page_size))>>
        /\ UNCHANGED <<blogs, tags, user_interests, comments, likes, images, users, issued, calls,
                   blog_summaries>>

\* GET /blogs/
GetBlogs(page_in, page_size_in, published_only, tag_id, current_user) ==
    LET page == PageParam(page_in)
        page_size == PageSizeParam(page_size_in)
        request == FeedRequest(page, page_size, published_only, tag_id, current_user)
        Matches(blog) == MatchesFeed(blog, published_only, tag_id)
    IN  /\ response = <<>>
        /\ IF ~(PageOk(page) /\ PageSizeOk(page_size))
           THEN /\ response' = <<Rejected("get_blogs", request)>>
                /\ recommendations' = <<>>
           ELSE \E candidates \in Orderings(SelectSeq(blogs, Matches)) :
                  LET interests == LookupInterests(current_user)
                      result == get_all_blogs_sorted_by_interest(candidates, interests,
                                                                 page, page_size)
                  IN  /\ recommendations' = result.ranked
                      /\ response' =
                           <<PaginatedBlogsResponse("get_blogs", request,
                                result.recommendations, result.total_count,
                                page, page_size,
                                TotalPages(result.total_count, page_size))>>
        /\ UNCHANGED <<blogs, tags, user_interests, comments, likes, images, users, issued, calls,
                   blog_summaries>>

\* The response leaves the handler; its locals are gone.
Return ==
    /\ response # <<>>
    /\ response' = <<>>
    /\ recommendations' = <<>>
    /\ UNCHANGED <<blogs, tags, user_interests, comments, likes, images, users, issued, calls,
                   blog_summaries>>

Next ==
    \/ \E q \in Queries, p \in PageInputs, s \in PageSizeInputs, u \in Users :
          SearchBlogs(q, p, s, u)
    \/ \E p \in PageInputs, s \in PageSizeInputs, po \in BOOLEAN, t \in TagFilters,
          u \in Users :
          GetBlogs(p, s, po, t, u)
    \/ Return

Spec == Init /\ [][Next]_vars

\* The ranking runs: every store and interest list, the first page only.
RankPageInputs == {Omitted}
RankPageSizeInputs == {Omitted, 1}

RankNext ==
    \/ \E q \in Queries, p \in RankPageInputs, s \in RankPageSizeInputs, u \in Users :
          SearchBlogs(q, p, s, u)
    \/ \E p \in RankPageInputs, s \in RankPageSizeInputs, po \in BOOLEAN,
          t \in TagFilters, u \in Users :
          GetBlogs(p, s, po, t, u)
    \/ Return

RankSpec == RankInit /\ [][RankNext]_vars

FieldSpec == FieldInit /\ [][RankNext]_vars

CandidateSpec == CandidateInit /\ [][RankNext]_vars

\* The search runs: every store, every page and page size.
SearchNext ==
    \/ \E q \in Queries, p \in PageInputs, s \in PageSizeInputs, u \in Users :
          SearchBlogs(q, p, s, u)
    \/ Return

SearchSpec == RankInit /\ [][SearchNext]_vars

\* Count fields of the two posts whose engagement is compared: absent, zero,
\* small, and large enough for the weighted sum to pass the cap.
CountInputs == {Absent, 0, 1, MaxCount \div 2, MaxCount - 2, MaxCount}

EngagementBlog(i, likes_count, comment_count) ==
    BlogDoc(i, [title |-> {"cooking"}, blog_body |-> {}, tag_ids |-> <<>>,
                published |-> TRUE, likes_count |-> likes_count,
                comment_count |-> comment_count])

EngagementInit ==
    /\ blogs \in {<<EngagementBlog(1, l1, c1), EngagementBlog(2, l2, c2)>> :
                      l1 \in CountInputs, c1 \in CountInputs,
                      l2 \in CountInputs, c2 \in CountInputs}
    /\ tags = TagNames
    /\ user_interests = <<>>
    /\ comments = <<>>
    /\ likes = <<>>
    /\ NoOtherState
    /\ response = <<>>
    /\ recommendations = <<>>

\* calculate_engagement_score applied to every stored post.
CalculateEngagement ==
    /\ response = <<>>
    /\ recommendations' = [i \in DOMAIN blogs |->
           [blog |-> BlogResponse(blogs[i]),
            relevance_score |-> calculate_engagement_score(blogs[i])]]
    /\ response' = <<[status |-> 200, op |-> "calculate_engagement_score"]>>
    /\ UNCHANGED <<blogs, tags, user_interests, comments, likes, images, users, issued, calls,
                   blog_summaries>>

EngagementNext == CalculateEngagement \/ Return

EngagementSpec == EngagementInit /\ [][EngagementNext]_vars

(* ------------------------ handler calls in progress -------------------- *)

\* Largest number of comments in the store.
MaxComments == 2

OtherUser == "u2"

\* The authenticated users of the write handlers.
Members == {TheUser, OtherUser}

\* A string that is no ObjectId, and the ObjectId of no stored document.
InvalidId == 0
UnknownId == 9

\* The blog document create_blog inserts: it has no count fields.
NewBlog(i, owner) ==
    [_id |-> i, user_id |-> owner, title |-> {"technology"}, blog_body |-> {},
     tag_ids |-> <<>>, published |-> TRUE, created_at |-> i]

\* find_one({"_id": id}) on a collection: the document, or None.
FindOne(collection, id) ==
    LET hits == {i \in DOMAIN collection : collection[i]._id = id}
    IN  IF hits = {} THEN None
        ELSE Some(collection[CHOOSE i \in hits : \A j \in hits : i <= j])

\* update_one({"_id": id}, {"$inc": {field: amount}}): an absent field
\* counts as 0; no document with that _id, no change.
IncField(collection, id, field, amount) ==
    [i \in DOMAIN collection |->
        IF collection[i]._id = id
        THEN [k \in DOMAIN collection[i] \cup {field} |->
                 IF k = field THEN Get(collection[i], field, 0) + amount
                 ELSE collection[i][k]]
        ELSE collection[i]]

\* delete_one({"_id": id})
DeleteOne(collection, id) ==
    LET Others(doc) == doc._id # id
    IN  SelectSeq(collection, Others)

\* The call of process p, and the calls with p's call replaced or ended.
Idle(p) == calls[p] = <<>>
Call(p) == calls[p][1]
At(p, op, pc) == ~Idle(p) /\ Call(p).op = op /\ Call(p).pc = pc
Proceed(p, call) == [calls EXCEPT ![p] = <<call>>]
Finish(p) == [calls EXCEPT ![p] = <<>>]

\* The answer of a handler: a status code for an operation.
Answer(op, status_code) == [status |-> status_code, op |-> op]

\* The _id insert_one gives a new document: one no stored document has and
\* no call in progress refers to.
NewId(collection, field) ==
    LET used == {collection[i]._id : i \in DOMAIN collection}
                  \cup {Get(Call(p), field, 0) : p \in {q \in Procs : ~Idle(q)}}
    IN  CHOOSE n \in 1..(Cardinality(used) + 1) : n \notin used

(* ------------------------- routers/comments.py ------------------------- *)

CreatesInProgress ==
    Cardinality({p \in Procs : ~Idle(p) /\ Call(p).op = "create_comment"})

\* create_comment up to the lookup of the blog.
CreateCommentFind(p, blog_id, current_user) ==
    /\ Idle(p)
    /\ Len(comments) + CreatesInProgress < MaxComments
    /\ IF blog_id = InvalidId
       THEN response' = <<Answer("create_comment", 400)>> /\ calls' = calls
       ELSE IF FindOne(blogs, blog_id) = None
       THEN response' = <<Answer("create_comment", 404)>> /\ calls' = calls
       ELSE /\ calls' = Proceed(p, [op |-> "create_comment", pc |-> "insert_one",
                                    blog_id |-> blog_id, user_id |-> current_user])
            /\ response' = response
    /\ UNCHANGED <<blogs, tags, user_interests, comments, likes, images, users, issued,
                   recommendations, blog_summaries>>

\* db.comments.insert_one(comment_dict)
CreateCommentInsert(p) ==
    /\ At(p, "create_comment", "insert_one")
    /\ comments' = Append(comments, [_id |-> NewId(comments, "comment_id"),
                                     blog_id |-> Call(p).blog_id,
                                     user_id |-> Call(p).user_id])
    /\ calls' = Proceed(p, [Call(p) EXCEPT !.pc = "update_one"])
    /\ UNCHANGED <<blogs, tags, user_interests, likes, images, users, issued,
                   response, recommendations, blog_summaries>>

\* db.blogs.update_one(..., {"$inc": {"comment_count": 1}}) and the response.
CreateCommentInc(p) ==
    /\ At(p, "create_comment", "update_one")
    /\ blogs' = IncField(blogs, Call(p).blog_id, "comment_count", 1)
    /\ calls' = Finish(p)
    /\ response' = <<Answer("create_comment", 200)>>
    /\ UNCHANGED <<tags, user_interests, comments, likes, images, users, issued,
                   recommendations, blog_summaries>>

\* delete_comment up to the ownership check.  The runs are cut where a
\* count has already fallen below zero.
DeleteCommentFind(p, comment_id, current_user) ==
    /\ Idle(p)
    /\ \A i \in DOMAIN blogs : Get(blogs[i], "comment_count", 0) >= 0
    /\ IF comment_id = InvalidId
       THEN response' = <<Answer("delete_comment", 400)>> /\ calls' = calls
       ELSE IF FindOne(comments, comment_id) = None
       THEN response' = <<Answer("delete_comment", 404)>> /\ calls' = calls
       ELSE IF FindOne(comments, comment_id)[1].user_id # current_user
       THEN response' = <<Answer("delete_comment", 403)>> /\ calls' = calls
       ELSE /\ calls' = Proceed(p, [op |-> "delete_comment", pc |-> "update_one",
                                    comment_id |-> comment_id,
                                    blog_id |-> FindOne(comments, comment_id)[1].blog_id])
            /\ response' = response
    /\ UNCHANGED <<blogs, tags, user_interests, comments, likes, images, users, issued,
                   recommendations, blog_summaries>>

\* db.blogs.update_one(..., {"$inc": {"comment_count": -1}})
DeleteCommentDec(p) ==
    /\ At(p, "delete_comment", "update_one")
    /\ blogs' = IncField(blogs, Call(p).blog_id, "comment_count", -1)
    /\ calls' = Proceed(p, [Call(p) EXCEPT !.pc = "delete_one"])
    /\ UNCHANGED <<tags, user_interests, comments, likes, images, users, issued,
                   response, recommendations, blog_summaries>>

\* db.comments.delete_one({"_id": ...}) and the response.
DeleteCommentDelete(p) ==
    /\ At(p, "delete_comment", "delete_one")
    /\ comments' = DeleteOne(comments, Call(p).comment_id)
    /\ calls' = Finish(p)
    /\ response' = <<Answer("delete_comment", 200)>>
    /\ UNCHANGED <<blogs, tags, user_interests, likes, images, users, issued,
                   recommendations, blog_summaries>>

\* One blog of the user, as create_blog left it, and no comment.
CommentInit ==
    /\ blogs = <<NewBlog(1, TheUser)>>
    /\ tags = TagNames
    /\ user_interests = <<>>
    /\ comments = <<>>
    /\ likes = <<>>
    /\ NoOtherState
    /\ response = <<>>
    /\ recommendations = <<>>

BlogIdInputs == {InvalidId, 1, UnknownId}
CommentIdInputs == {InvalidId, UnknownId} \cup 1..MaxComments

CommentNext ==
    \E p \in Procs :
        \/ \E b \in BlogIdInputs, u \in Members : CreateCommentFind(p, b, u)
        \/ CreateCommentInsert(p)
        \/ CreateCommentInc(p)
        \/ \E c \in CommentIdInputs, u \in Members : DeleteCommentFind(p, c, u)
        \/ DeleteCommentDec(p)
        \/ DeleteCommentDelete(p)

CommentSpec == CommentInit /\ [][CommentNext]_vars

(* --------------------------- routers/likes.py -------------------------- *)

\* Largest number of like records in the store.
MaxLikes == 3

\* db.likes.find_one({"blog_id": ..., "user_id": ...}): the record, or None.
FindLike(blog_id, user_id) ==
    LET hits == {i \in DOMAIN likes :
                    likes[i].blog_id = blog_id /\ likes[i].user_id = user_id}
    IN  IF hits = {} THEN None
        ELSE Some(likes[CHOOSE i \in hits : \A j \in hits : i <= j])

TogglesInProgress ==
    Cardinality({p \in Procs : ~Idle(p) /\ Call(p).op = "toggle_like"})

\* toggle_like up to the lookup of the user's like of the blog.
ToggleLikeFind(p, blog_id, isLiked, current_user) ==
    /\ Idle(p)
    /\ Len(likes) + TogglesInProgress < MaxLikes
    /\ IF blog_id = InvalidId
       THEN response' = <<Answer("toggle_like", 400)>> /\ calls' = calls
       ELSE IF FindOne(blogs, blog_id) = None
       THEN response' = <<Answer("toggle_like", 404)>> /\ calls' = calls
       ELSE /\ calls' = Proceed(p, [op |-> "toggle_like", pc |-> "write",
                                    blog_id |-> blog_id, user_id |-> current_user,
                                    isLiked |-> isLiked,
                                    existing_like |-> FindLike(blog_id, current_user),
                                    like_id |->
                                        IF FindLike(blog_id, current_user) = None THEN 0
                                        ELSE FindLike(blog_id, current_user)[1]._id])
            /\ response' = response
    /\ UNCHANGED <<blogs, tags, user_interests, comments, likes, images, users, issued,
                   recommendations, blog_summaries>>

\* toggle_like from the branch on existing_like: update_one of the record
\* found, or insert_one of a new record.  No blog document is written.
ToggleLikeWrite(p) ==
    /\ At(p, "toggle_like", "write")
    /\ likes' =
         IF Call(p).existing_like # None
         THEN [i \in DOMAIN likes |->
                 IF likes[i]._id = Call(p).like_id
                 THEN [likes[i] EXCEPT !.isLiked = Call(p).isLiked]
                 ELSE likes[i]]
         ELSE Append(likes, [_id |-> NewId(likes, "like_id"),
                             blog_id |-> Call(p).blog_id,
                             user_id |-> Call(p).user_id,
                             isLiked |-> Call(p).isLiked])
    /\ calls' = Finish(p)
    /\ response' = <<Answer("toggle_like", 200)>>
    /\ UNCHANGED <<blogs, tags, user_interests, comments, images, users, issued,
                   recommendations, blog_summaries>>

\* remove_like: delete_one of the user's like of the blog.
RemoveLike(p, blog_id, current_user) ==
    /\ Idle(p)
    /\ IF blog_id = InvalidId
       THEN response' = <<Answer("remove_like", 400)>> /\ likes' = likes
       ELSE IF FindLike(blog_id, current_user) = None
       THEN response' = <<Answer("remove_like", 404)>> /\ likes' = likes
       ELSE /\ likes' = DeleteOne(likes, FindLike(blog_id, current_user)[1]._id)
            /\ response' = <<Answer("remove_like", 200)>>
    /\ UNCHANGED <<blogs, tags, user_interests, comments, images, users, issued, calls,
                   recommendations, blog_summaries>>

\* One blog of the user, as create_blog left it, and no like.
LikeInit ==
    /\ blogs = <<NewBlog(1, TheUser)>>
    /\ tags = TagNames
    /\ user_interests = <<>>
    /\ comments = <<>>
    /\ likes = <<>>
    /\ NoOtherState
    /\ response = <<>>
    /\ recommendations = <<>>

LikeNext ==
    \E p \in Procs :
        \/ \E b \in BlogIdInputs, l \in BOOLEAN, u \in Members : ToggleLikeFind(p, b, l, u)
        \/ ToggleLikeWrite(p)
        \/ \E b \in BlogIdInputs, u \in Members : RemoveLike(p, b, u)

LikeSpec == LikeInit /\ [][LikeNext]_vars

(* ------------------------- routers/interests.py ------------------------ *)

\* Largest number of interest records in the store.
MaxRecords == 2

\* UserInterestsCreate, UserInterestsUpdate: Field(..., min_items=1, max_items=20)
MinItems == 1
MaxItems == 20

InterestsOk(interests) == Len(interests) >= MinItems /\ Len(interests) <= MaxItems

\* The lists and the single terms the requests carry.
InterestsInputs == {<<>>, <<"travel">>, <<"Travel", "travel">>, <<"food", "food">>}
InterestInputs == {"travel", "Travel"}

\* str.lower() on the terms of the requests.
Lower(term) == IF term = "Travel" THEN "travel" ELSE term

\* The first record of the user in the store, or 0.
FirstRecordOf(user) ==
    LET hits == {i \in DOMAIN user_interests : user_interests[i].user_id = user}
    IN  IF hits = {} THEN 0 ELSE CHOOSE i \in hits : \A j \in hits : i <= j

\* update_one({"user_id": ...}, ...): the first record of the user, if any,
\* gets the new list.
UpdateInterests(user, new_list) ==
    [i \in DOMAIN user_interests |->
        IF i = FirstRecordOf(user)
        THEN [user_interests[i] EXCEPT !.interests = new_list]
        ELSE user_interests[i]]

\* The list of the record update_one matches, <<>> when it matches none.
MatchedList(user) ==
    IF FirstRecordOf(user) = 0 THEN <<>>
    ELSE user_interests[FirstRecordOf(user)].interests

\* $addToSet: appended unless an equal element is there.
AddToSet(list, interest) ==
    IF interest \in Range(list) THEN list ELSE Append(list, interest)

\* $pull: every equal element removed.
Pull(list, interest) ==
    LET Other(term) == term # interest
    IN  SelectSeq(list, Other)

InsertsInProgress ==
    Cardinality({p \in Procs : /\ ~Idle(p)
                               /\ Call(p).op = "create_user_interests"
                               /\ ~Call(p).existing_interests})

\* create_user_interests up to find_one.
CreateInterestsFind(p, interests, current_user) ==
    /\ Idle(p)
    /\ Len(user_interests) + InsertsInProgress < MaxRecords
    /\ IF ~InterestsOk(interests)
       THEN response' = <<Answer("create_user_interests", 422)>> /\ calls' = calls
       ELSE /\ calls' = Proceed(p, [op |-> "create_user_interests", pc |-> "write",
                                    user_id |-> current_user, interests |-> interests,
                                    existing_interests |->
                                        FindInterestsDoc(current_user) # None])
            /\ response' = response
    /\ UNCHANGED <<blogs, tags, user_interests, comments, likes, images, users, issued,
                   recommendations, blog_summaries>>

\* create_user_interests from the branch on existing_interests: update_one
\* of the user's record, or insert_one of a new record.
CreateInterestsWrite(p) ==
    /\ At(p, "create_user_interests", "write")
    /\ user_interests' =
         IF Call(p).existing_interests
         THEN UpdateInterests(Call(p).user_id, Call(p).interests)
         ELSE Append(user_interests, [user_id |-> Call(p).user_id,
                                      interests |-> Call(p).interests])
    /\ calls' = Finish(p)
    /\ response' = <<Answer("create_user_interests", 200)>>
    /\ UNCHANGED <<blogs, tags, comments, likes, images, users, issued, recommendations,
                   blog_summaries>>

\* update_user_interests, add_interest, remove_interest up to find_one.
ChangeInterestsFind(p, op, interests, current_user) ==
    /\ Idle(p)
    /\ IF op = "update_user_interests" /\ ~InterestsOk(interests)
       THEN response' = <<Answer(op, 422)>> /\ calls' = calls
       ELSE IF FindInterestsDoc(current_user) = None
       THEN response' = <<Answer(op, 404)>> /\ calls' = calls
       ELSE /\ calls' = Proceed(p, [op |-> op, pc |-> "update_one",
                                    user_id |-> current_user, interests |-> interests])
            /\ response' = response
    /\ UNCHANGED <<blogs, tags, user_interests, comments, likes, images, users, issued,
                   recommendations, blog_summaries>>

\* update_user_interests: update_one with $set of the whole list.
UpdateInterestsWrite(p) ==
    /\ At(p, "update_user_interests", "update_one")
    /\ user_interests' = UpdateInterests(Call(p).user_id, Call(p).interests)
    /\ calls' = Finish(p)
    /\ response' = <<Answer("update_user_interests", 200)>>
    /\ UNCHANGED <<blogs, tags, comments, likes, images, users, issued, recommendations,
                   blog_summaries>>

\* add_interest: update_one with $addToSet.
AddInterestWrite(p) ==
    /\ At(p, "add_interest", "update_one")
    /\ user_interests' =
         UpdateInterests(Call(p).user_id,
                         AddToSet(MatchedList(Call(p).user_id), Call(p).interests[1]))
    /\ calls' = Finish(p)
    /\ response' = <<Answer("add_interest", 200)>>
    /\ UNCHANGED <<blogs, tags, comments, likes, images, users, issued, recommendations,
                   blog_summaries>>

\* remove_interest: update_one with $pull.
RemoveInterestWrite(p) ==
    /\ At(p, "remove_interest", "update_one")
    /\ user_interests' =
         UpdateInterests(Call(p).user_id,
                         Pull(MatchedList(Call(p).user_id), Call(p).interests[1]))
    /\ calls' = Finish(p)
    /\ response' = <<Answer("remove_interest", 200)>>
    /\ UNCHANGED <<blogs, tags, comments, likes, images, users, issued, recommendations,
                   blog_summaries>>

\* delete_user_interests: delete_one of the user's first record.
DeleteUserInterests(p, current_user) ==
    /\ Idle(p)
    /\ IF FirstRecordOf(current_user) = 0
       THEN response' = <<Answer("delete_user_interests", 404)>>
            /\ user_interests' = user_interests
       ELSE /\ user_interests' =
                 [i \in 1..(Len(user_interests) - 1) |->
                     IF i < FirstRecordOf(current_user) THEN user_interests[i]
                     ELSE user_interests[i + 1]]
            /\ response' = <<Answer("delete_user_interests", 200)>>
    /\ UNCHANGED <<blogs, tags, comments, likes, images, users, issued, calls,
                   recommendations, blog_summaries>>

\* No interest record yet.
InterestInit ==
    /\ blogs = <<>>
    /\ tags = TagNames
    /\ user_interests = <<>>
    /\ comments = <<>>
    /\ likes = <<>>
    /\ NoOtherState
    /\ response = <<>>
    /\ recommendations = <<>>

InterestNext ==
    \E p \in Procs, u \in Members :
        \/ \E l \in InterestsInputs : CreateInterestsFind(p, l, u)
        \/ CreateInterestsWrite(p)
        \/ \E l \in InterestsInputs : ChangeInterestsFind(p, "update_user_interests", l, u)
        \/ \E t \in InterestInputs : ChangeInterestsFind(p, "add_interest", <<t>>, u)
        \/ \E t \in InterestInputs : ChangeInterestsFind(p, "remove_interest", <<t>>, u)
        \/ UpdateInterestsWrite(p)
        \/ AddInterestWrite(p)
        \/ RemoveInterestWrite(p)
        \/ DeleteUserInterests(p, u)

InterestSpec == InterestInit /\ [][InterestNext]_vars

(* --------------- routers/blogs.py: update_blog, delete_blog ------------- *)

\* delete_many({"blog_id": blog_id})
DeleteMany(collection, blog_id) ==
    LET Others(doc) == doc.blog_id # blog_id
    IN  SelectSeq(collection, Others)

\* update_one({"_id": id}, {"$set": update_data})
SetFields(collection, id, update_data) ==
    [i \in DOMAIN collection |->
        IF collection[i]._id = id
        THEN [k \in DOMAIN collection[i] \cup DOMAIN update_data |->
                 IF k \in DOMAIN update_data THEN update_data[k] ELSE collection[i][k]]
        ELSE collection[i]]

\* The fields a BlogUpdate carries; the others are None.
BlogUpdates == {[title |-> {"cooking"}], [published |-> FALSE]}

\* [ObjectId(tag_id) for tag_id in tag_ids if ObjectId.is_valid(tag_id)]
ValidTagIds(tag_ids) ==
    LET Valid(tag_id) == tag_id # InvalidId
    IN  SelectSeq(tag_ids, Valid)

\* update_data: updated_at and the fields of the request that are not None.
UpdateData(blog_update) ==
    [k \in DOMAIN blog_update \cup {"updated_at"} |->
        IF k = "updated_at" THEN "utcnow"
        ELSE IF k = "tag_ids" THEN ValidTagIds(blog_update[k])
        ELSE blog_update[k]]

\* update_blog up to the ownership check, which is dropped.
UpdateBlogFindAnyUser(p, blog_id, blog_update, current_user) ==
    /\ Idle(p)
    /\ IF blog_id = InvalidId
       THEN response' = <<Answer("update_blog", 400)>> /\ calls' = calls
       ELSE IF FindOne(blogs, blog_id) = None
       THEN response' = <<Answer("update_blog", 404)>> /\ calls' = calls
       ELSE /\ calls' = Proceed(p, [op |-> "update_blog", pc |-> "update_one",
                                    blog_id |-> blog_id,
                                    update_data |-> UpdateData(blog_update)])
            /\ response' = response
    /\ UNCHANGED <<blogs, tags, user_interests, comments, likes, images, users, issued,
                   recommendations, blog_summaries>>

\* update_blog up to the ownership check.
UpdateBlogFind(p, blog_id, blog_update, current_user) ==
    /\ Idle(p)
    /\ IF blog_id = InvalidId
       THEN response' = <<Answer("update_blog", 400)>> /\ calls' = calls
       ELSE IF FindOne(blogs, blog_id) = None
       THEN response' = <<Answer("update_blog", 404)>> /\ calls' = calls
       ELSE IF FindOne(blogs, blog_id)[1].user_id # current_user
       THEN response' = <<Answer("update_blog", 403)>> /\ calls' = calls
       ELSE /\ calls' = Proceed(p, [op |-> "update_blog", pc |-> "update_one",
                                    blog_id |-> blog_id,
                                    update_data |-> UpdateData(blog_update)])
            /\ response' = response
    /\ UNCHANGED <<blogs, tags, user_interests, comments, likes, images, users, issued,
                   recommendations, blog_summaries>>

\* update_blog from update_one: the blog is read again for the response,
\* and updated_blog["_id"] on None raises TypeError.
UpdateBlogWrite(p) ==
    /\ At(p, "update_blog", "update_one")
    /\ blogs' = SetFields(blogs, Call(p).blog_id, Call(p).update_data)
    /\ calls' = Finish(p)
    /\ response' = IF FindOne(blogs, Call(p).blog_id) = None
                   THEN <<Answer("update_blog", 500)>>
                   ELSE <<Answer("update_blog", 200)>>
    /\ UNCHANGED <<tags, user_interests, comments, likes, images, users, issued,
                   recommendations, blog_summaries>>

\* delete_blog up to the ownership check.
DeleteBlogFind(p, blog_id, current_user) ==
    /\ Idle(p)
    /\ IF blog_id = InvalidId
       THEN response' = <<Answer("delete_blog", 400)>> /\ calls' = calls
       ELSE IF FindOne(blogs, blog_id) = None
       THEN response' = <<Answer("delete_blog", 404)>> /\ calls' = calls
       ELSE IF FindOne(blogs, blog_id)[1].user_id # current_user
       THEN response' = <<Answer("delete_blog", 403)>> /\ calls' = calls
       ELSE /\ calls' = Proceed(p, [op |-> "delete_blog", pc |-> "comments",
                                    blog_id |-> blog_id])
            /\ response' = response
    /\ UNCHANGED <<blogs, tags, user_interests, comments, likes, images, users, issued,
                   recommendations, blog_summaries>>

\* delete_blog: db.comments.delete_many
DeleteBlogComments(p) ==
    /\ At(p, "delete_blog", "comments")
    /\ comments' = DeleteMany(comments, Call(p).blog_id)
    /\ calls' = Proceed(p, [Call(p) EXCEPT !.pc = "likes"])
    /\ UNCHANGED <<blogs, tags, user_interests, likes, images, users, issued, response,
                   recommendations, blog_summaries>>

\* delete_blog: db.likes.delete_many
DeleteBlogLikes(p) ==
    /\ At(p, "delete_blog", "likes")
    /\ likes' = DeleteMany(likes, Call(p).blog_id)
    /\ calls' = Proceed(p, [Call(p) EXCEPT !.pc = "images"])
    /\ UNCHANGED <<blogs, tags, user_interests, comments, images, users, issued, response,
                   recommendations, blog_summaries>>

\* delete_blog: db.images.delete_many
DeleteBlogImages(p) ==
    /\ At(p, "delete_blog", "images")
    /\ images' = DeleteMany(images, Call(p).blog_id)
    /\ calls' = Proceed(p, [Call(p) EXCEPT !.pc = "delete_one"])
    /\ UNCHANGED <<blogs, tags, user_interests, comments, likes, users, issued, response,
                   recommendations, blog_summaries>>

\* delete_blog: db.blogs.delete_one and the answer.
DeleteBlogDelete(p) ==
    /\ At(p, "delete_blog", "delete_one")
    /\ blogs' = DeleteOne(blogs, Call(p).blog_id)
    /\ calls' = Finish(p)
    /\ response' = <<Answer("delete_blog", 200)>>
    /\ UNCHANGED <<tags, user_interests, comments, likes, images, users, issued,
                   recommendations, blog_summaries>>

\* The documents that belong to a blog: one comment, one like, one image.
Belongings(blog_ids) == [i \in DOMAIN blog_ids |-> [_id |-> i, blog_id |-> blog_ids[i]]]

\* One blog of each member, each with a comment, a like and an image.
OwnerInit ==
    /\ blogs = <<NewBlog(1, TheUser), NewBlog(2, OtherUser)>>
    /\ tags = TagNames
    /\ user_interests = <<>>
    /\ comments = [i \in 1..2 |-> [_id |-> i, blog_id |-> i, user_id |-> OtherUser]]
    /\ likes = [i \in 1..2 |-> [_id |-> i, blog_id |-> i, user_id |-> OtherUser,
                                isLiked |-> TRUE]]
    /\ images = Belongings(<<1, 2>>)
    /\ users = <<>>
    /\ issued = <<>>
    /\ calls = NoCalls
    /\ blog_summaries = <<>>
    /\ response = <<>>
    /\ recommendations = <<>>

OwnerBlogIds == {InvalidId, 1, 2, UnknownId}

OwnerNext ==
    \E p \in Procs :
        \/ \E b \in OwnerBlogIds, d \in BlogUpdates, u \in Members :
              UpdateBlogFind(p, b, d, u)
        \/ UpdateBlogWrite(p)
        \/ \E b \in OwnerBlogIds, u \in Members : DeleteBlogFind(p, b, u)
        \/ DeleteBlogComments(p)
        \/ DeleteBlogLikes(p)
        \/ DeleteBlogImages(p)
        \/ DeleteBlogDelete(p)

OwnerSpec == OwnerInit /\ [][OwnerNext]_vars

(* --------------------------- routers/auth.py --------------------------- *)

\* Largest number of refresh tokens and logouts in one run.
MaxEvents == 3

\* No refresh token: the value register and logout store.
NoToken == <<>>

\* A cookie that no create_refresh_token call made.
Forged == [sub |-> TheUser, serial |-> 0]

\* The user documents after register: refresh_token is None.
RegisteredUsers ==
    <<[_id |-> TheUser, refresh_token |-> NoToken],
      [_id |-> OtherUser, refresh_token |-> NoToken]>>

\* The refresh tokens that calls in progress have created and not stored.
TokensInCalls ==
    {Call(p).token : p \in {q \in Procs : ~Idle(q) /\ "token" \in DOMAIN Call(q)}}

\* issued: the tokens handed over and the logouts so far, in their order.
\* The refresh tokens of the responses so far, which the clients hold.
TokensIssued == {issued[i].token[1] : i \in {j \in DOMAIN issued : issued[j].token # NoToken}}

\* create_refresh_token(data={"sub": email}): a token for the user that
\* differs from every token created before.
create_refresh_token(sub) ==
    LET used == {t.serial : t \in TokensIssued \cup TokensInCalls}
    IN  [sub |-> sub, serial |-> CHOOSE n \in 1..(Cardinality(used) + 1) : n \notin used]

\* verify_token(token, credentials_exception): the token's subject, or the
\* exception for a token that create_refresh_token did not make.
verify_token(token) == IF token.serial = 0 THEN None ELSE Some(token.sub)

\* get_user_by_email(email): the user document, or None.
get_user_by_email(email) == FindOne(users, email)

\* The calls and logouts so far leave room for one more.
RoomForEvent == Len(issued) + Cardinality(TokensInCalls) < MaxEvents

\* login and google_login up to create_refresh_token; a request that does
\* not authenticate is answered 401.
IssueCreate(p, op, user, authenticated) ==
    /\ Idle(p)
    /\ IF ~authenticated
       THEN response' = <<Answer(op, 401)>> /\ calls' = calls
       ELSE /\ RoomForEvent
            /\ calls' = Proceed(p, [op |-> op, pc |-> "update_one", user_id |-> user,
                                    presented |-> NoToken,
                                    token |-> create_refresh_token(user)])
            /\ response' = response
    /\ UNCHANGED <<blogs, tags, user_interests, comments, likes, images, users, issued,
                   recommendations, blog_summaries>>

\* login, google_login and refresh_token from update_one: the new token is
\* stored and handed over in the response's cookie.
IssueStore(p, op) ==
    /\ At(p, op, "update_one")
    /\ users' = SetFields(users, Call(p).user_id, [refresh_token |-> Some(Call(p).token)])
    /\ issued' = Append(issued, [op |-> op, user_id |-> Call(p).user_id,
                                 presented |-> Call(p).presented,
                                 token |-> Some(Call(p).token)])
    /\ calls' = Finish(p)
    /\ response' = <<Answer(op, 200)>>
    /\ UNCHANGED <<blogs, tags, user_interests, comments, likes, images, recommendations,
                   blog_summaries>>

LoginCreate(p, user, authenticated) == IssueCreate(p, "login", user, authenticated)
LoginStore(p) == IssueStore(p, "login")

\* google_login of a user who has a document.
GoogleLoginCreate(p, user, authenticated) == IssueCreate(p, "google_login", user, authenticated)
GoogleLoginStore(p) == IssueStore(p, "google_login")

\* The cookie passes the handler's checks: it verifies, its user exists and
\* the user's stored refresh token equals it.
CookieAccepted(cookie) ==
    /\ cookie # NoToken
    /\ verify_token(cookie[1]) # None
    /\ get_user_by_email(verify_token(cookie[1])[1]) # None
    /\ get_user_by_email(verify_token(cookie[1])[1])[1].refresh_token = cookie

\* refresh_token up to create_refresh_token, the stored token is left as it is.
RefreshCheckKeepingToken(p, cookie) ==
    /\ Idle(p)
    /\ IF ~CookieAccepted(cookie)
       THEN response' = <<Answer("refresh_token", 401)>> /\ calls' = calls
       ELSE /\ RoomForEvent
            /\ calls' = Proceed(p, [op |-> "refresh_token", pc |-> "update_one",
                                    user_id |-> verify_token(cookie[1])[1],
                                    presented |-> cookie, token |-> cookie[1]])
            /\ response' = response
    /\ UNCHANGED <<blogs, tags, user_interests, comments, likes, images, users, issued,
                   recommendations, blog_summaries>>

\* refresh_token up to create_refresh_token.
RefreshCheck(p, cookie) ==
    /\ Idle(p)
    /\ IF ~CookieAccepted(cookie)
       THEN response' = <<Answer("refresh_token", 401)>> /\ calls' = calls
       ELSE /\ RoomForEvent
            /\ calls' = Proceed(p, [op |-> "refresh_token", pc |-> "update_one",
                                    user_id |-> verify_token(cookie[1])[1],
                                    presented |-> cookie,
                                    token |-> create_refresh_token(
                                                  verify_token(cookie[1])[1])])
            /\ response' = response
    /\ UNCHANGED <<blogs, tags, user_interests, comments, likes, images, users, issued,
                   recommendations, blog_summaries>>

RefreshStore(p) == IssueStore(p, "refresh_token")

\* logout: update_one with refresh_token None.
Logout(p, current_user) ==
    /\ Idle(p)
    /\ RoomForEvent
    /\ users' = SetFields(users, current_user, [refresh_token |-> NoToken])
    /\ issued' = Append(issued, [op |-> "logout", user_id |-> current_user,
                                 presented |-> NoToken, token |-> NoToken])
    /\ response' = <<Answer("logout", 200)>>
    /\ UNCHANGED <<blogs, tags, user_interests, comments, likes, images, calls,
                   recommendations, blog_summaries>>

AuthInit ==
    /\ blogs = <<>>
    /\ tags = TagNames
    /\ user_interests = <<>>
    /\ comments = <<>>
    /\ likes = <<>>
    /\ images = <<>>
    /\ users = RegisteredUsers
    /\ issued = <<>>
    /\ calls = NoCalls
    /\ blog_summaries = <<>>
    /\ response = <<>>
    /\ recommendations = <<>>

\* The cookies a client can send: none, a forged one, a token it was given.
Cookies == {NoToken, Some(Forged)} \cup {Some(t) : t \in TokensIssued}

AuthNext ==
    \E p \in Procs :
        \/ \E u \in Members, a \in BOOLEAN : LoginCreate(p, u, a)
        \/ LoginStore(p)
        \/ \E u \in Members, a \in BOOLEAN : GoogleLoginCreate(p, u, a)
        \/ GoogleLoginStore(p)
        \/ \E cookie \in Cookies : RefreshCheck(p, cookie)
        \/ RefreshStore(p)
        \/ \E u \in Members : Logout(p, u)

AuthSpec == AuthInit /\ [][AuthNext]_vars

(* ---------- routers/auth.py: register, update_profile, google_login ----- *)

\* Largest number of user documents in the store.
MaxUsers == 2

\* The addresses and user names of the requests.
Emails == {"a@x", "b@x"}
Usernames == {"a", "b"}

\* email.split('@')[0]
LocalPart(email) == IF email = "a@x" THEN "a" ELSE "b"

\* f"{original_username}{counter}"
Numbered(original_username, counter) ==
    IF original_username = "a" THEN <<"a1", "a2", "a3", "a4">>[counter]
    ELSE <<"b1", "b2", "b3", "b4">>[counter]

\* user_dict of register and of google_login: the role is "user".
UserDoc(id, username, email) ==
    [_id |-> id, username |-> username, email |-> email, role |-> "user",
     refresh_token |-> NoToken]

\* find_one({field: value, "_id": {"$ne": except}}) finds a document.
UserExists(field, value, except) ==
    \E i \in DOMAIN users : users[i][field] = value /\ users[i]._id # except

NoId == 0

InsertsOfUsers ==
    Cardinality({p \in Procs : ~Idle(p) /\ Call(p).pc \in {"find_username", "insert_one"}})

RoomForUser == Len(users) + InsertsOfUsers < MaxUsers

\* register up to find_one by email.
RegisterFindEmail(p, username, email) ==
    /\ Idle(p)
    /\ IF UserExists("email", email, NoId)
       THEN response' = <<Answer("register", 400)>> /\ calls' = calls
       ELSE /\ RoomForUser
            /\ calls' = Proceed(p, [op |-> "register", pc |-> "find_username",
                                    username |-> username, email |-> email])
            /\ response' = response
    /\ UNCHANGED <<blogs, tags, user_interests, comments, likes, images, users, issued,
                   recommendations, blog_summaries>>

\* register: find_one by username.
RegisterFindUsername(p) ==
    /\ At(p, "register", "find_username")
    /\ IF UserExists("username", Call(p).username, NoId)
       THEN response' = <<Answer("register", 400)>> /\ calls' = Finish(p)
       ELSE /\ calls' = Proceed(p, [Call(p) EXCEPT !.pc = "insert_one"])
            /\ response' = response
    /\ UNCHANGED <<blogs, tags, user_interests, comments, likes, images, users, issued,
                   recommendations, blog_summaries>>

\* register: insert_one and the answer.
RegisterInsert(p) ==
    /\ At(p, "register", "insert_one")
    /\ users' = Append(users, UserDoc(NewId(users, "user_id"), Call(p).username,
                                      Call(p).email))
    /\ calls' = Finish(p)
    /\ response' = <<Answer("register", 200)>>
    /\ UNCHANGED <<blogs, tags, user_interests, comments, likes, images, issued,
                   recommendations, blog_summaries>>

\* The fields a ProfileUpdateRequest carries; the others are None.
ProfileUpdates == {[username |-> "b"], [email |-> "b@x"]}

\* update_profile up to find_one by username, when the request has one.
UpdateProfileFindUsername(p, profile_data, current_user) ==
    /\ Idle(p)
    /\ FindOne(users, current_user) # None
    /\ IF /\ "username" \in DOMAIN profile_data
          /\ UserExists("username", profile_data.username, current_user)
       THEN response' = <<Answer("update_profile", 400)>> /\ calls' = calls
       ELSE /\ calls' = Proceed(p, [op |-> "update_profile", pc |-> "find_email",
                                    user_id |-> current_user,
                                    update_fields |-> profile_data])
            /\ response' = response
    /\ UNCHANGED <<blogs, tags, user_interests, comments, likes, images, users, issued,
                   recommendations, blog_summaries>>

\* update_profile: find_one by email, when the request has one.
UpdateProfileFindEmail(p) ==
    /\ At(p, "update_profile", "find_email")
    /\ IF /\ "email" \in DOMAIN Call(p).update_fields
          /\ UserExists("email", Call(p).update_fields.email, Call(p).user_id)
       THEN response' = <<Answer("update_profile", 400)>> /\ calls' = Finish(p)
       ELSE /\ calls' = Proceed(p, [Call(p) EXCEPT !.pc = "update_one"])
            /\ response' = response
    /\ UNCHANGED <<blogs, tags, user_interests, comments, likes, images, users, issued,
                   recommendations, blog_summaries>>

\* update_profile: update_one; modified_count 0 is answered 500.
UpdateProfileWrite(p) ==
    /\ At(p, "update_profile", "update_one")
    /\ users' = SetFields(users, Call(p).user_id, Call(p).update_fields)
    /\ calls' = Finish(p)
    /\ response' = IF users' = users THEN <<Answer("update_profile", 500)>>
                   ELSE <<Answer("update_profile", 200)>>
    /\ UNCHANGED <<blogs, tags, user_interests, comments, likes, images, issued,
                   recommendations, blog_summaries>>

\* find_one({"email": email}): the first document with the address, or None.
FindUserByEmail(email) ==
    LET hits == {i \in DOMAIN users : users[i].email = email}
    IN  IF hits = {} THEN None
        ELSE Some(users[CHOOSE i \in hits : \A j \in hits : i <= j])

\* google_login up to find_one by email: a Google token that does not
\* verify is answered 401; a user with a document goes on to the tokens.
GoogleLoginFindUser(p, email, authenticated) ==
    /\ Idle(p)
    /\ IF ~authenticated
       THEN response' = <<Answer("google_login", 401)>> /\ calls' = calls
       ELSE /\ RoomForEvent
            /\ IF FindUserByEmail(email) # None
               THEN calls' = Proceed(p, [op |-> "google_login", pc |-> "update_one",
                                         user_id |-> FindUserByEmail(email)[1]._id,
                                         presented |-> NoToken,
                                         token |-> create_refresh_token(email)])
               ELSE /\ RoomForUser
                    /\ calls' = Proceed(p, [op |-> "google_login", pc |-> "find_username",
                                            email |-> email, username |-> LocalPart(email),
                                            counter |-> 1,
                                            token |-> create_refresh_token(email)])
            /\ response' = response
    /\ UNCHANGED <<blogs, tags, user_interests, comments, likes, images, users, issued,
                   recommendations, blog_summaries>>

\* google_login: one turn of the loop that looks for a free user name.
GoogleLoginFindUsername(p) ==
    /\ At(p, "google_login", "find_username")
    /\ calls' = IF UserExists("username", Call(p).username, NoId)
                THEN Proceed(p, [Call(p) EXCEPT
                                    !.username = Numbered(LocalPart(Call(p).email),
                                                          Call(p).counter),
                                    !.counter = @ + 1])
                ELSE Proceed(p, [Call(p) EXCEPT !.pc = "insert_one"])
    /\ UNCHANGED <<blogs, tags, user_interests, comments, likes, images, users, issued,
                   response, recommendations, blog_summaries>>

\* google_login: insert_one of the new user, then on to the tokens.
GoogleLoginInsert(p) ==
    /\ At(p, "google_login", "insert_one")
    /\ users' = Append(users, UserDoc(NewId(users, "user_id"), Call(p).username,
                                      Call(p).email))
    /\ calls' = Proceed(p, [op |-> "google_login", pc |-> "update_one",
                            user_id |-> NewId(users, "user_id"),
                            presented |-> NoToken, token |-> Call(p).token])
    /\ UNCHANGED <<blogs, tags, user_interests, comments, likes, images, issued, response,
                   recommendations, blog_summaries>>

\* No user yet.
AccountInit ==
    /\ blogs = <<>>
    /\ tags = TagNames
    /\ user_interests = <<>>
    /\ comments = <<>>
    /\ likes = <<>>
    /\ images = <<>>
    /\ users = <<>>
    /\ issued = <<>>
    /\ calls = NoCalls
    /\ blog_summaries = <<>>
    /\ response = <<>>
    /\ recommendations = <<>>

UserIds == 1..MaxUsers

AccountNext ==
    \E p \in Procs :
        \/ \E n \in Usernames, e \in Emails : RegisterFindEmail(p, n, e)
        \/ RegisterFindUsername(p)
        \/ RegisterInsert(p)
        \/ \E d \in ProfileUpdates, u \in UserIds : UpdateProfileFindUsername(p, d, u)
        \/ UpdateProfileFindEmail(p)
        \/ UpdateProfileWrite(p)
        \/ \E e \in Emails, a \in BOOLEAN : GoogleLoginFindUser(p, e, a)
        \/ GoogleLoginFindUsername(p)
        \/ GoogleLoginInsert(p)
        \/ GoogleLoginStore(p)

AccountSpec == AccountInit /\ [][AccountNext]_vars

(* ------------------------ app/routers/dashboard.py ---------------------- *)

\* Strings whose characters matter are sequences of one-character strings.
UpperCase == <<"A", "B", "C", "D", "E", "F", "G", "H", "I", "J", "K", "L", "M", "N", "O", "P", "Q", "R", "S", "T", "U", "V", "W", "X", "Y", "Z">>
LowerCase == <<"a", "b", "c", "d", "e", "f", "g", "h", "i", "j", "k", "l", "m", "n", "o", "p", "q", "r", "s", "t", "u", "v", "w", "x", "y", "z">>

\* str.lower()
LowerChar(ch) ==
    IF \E k \in DOMAIN UpperCase : UpperCase[k] = ch
    THEN LowerCase[CHOOSE k \in DOMAIN UpperCase : UpperCase[k] = ch]
    ELSE ch

LowerString(s) == [i \in DOMAIN s |-> LowerChar(s[i])]

\* sub in s
Contains(s, sub) ==
    \E k \in 0..(Len(s) - Len(sub)) : SubSeq(s, k + 1, k + Len(sub)) = sub

\* s.endswith(suffix)
EndsWith(s, suffix) ==
    Len(s) >= Len(suffix) /\ SubSeq(s, Len(s) - Len(suffix) + 1, Len(s)) = suffix

AdminWord == <<"a", "d", "m", "i", "n">>
AdminDomain == <<"@", "a", "d", "m", "i", "n", ".", "c", "o", "m">>
admin_emails == {<<"b", "l", "o", "g", "p", "l", "a", "t", "f", "o", "r", "m", ".", "l", "i", "v", "e", "@", "g", "m", "a", "i", "l", ".", "c", "o", "m">>}

is_admin(user) ==
    \/ Contains(LowerString(user.username), AdminWord)
    \/ EndsWith(user.email, AdminDomain)
    \/ LowerString(user.email) \in admin_emails

\* The user names and addresses of the register requests: 3 to 20
\* characters, and an address with one @.
RegisterUsernames == {<<"b", "o", "b">>, <<"A", "d", "m", "i", "n", "1">>}
RegisterEmails == {<<"b", "@", "x", ".", "i", "o">>, <<"c", "@", "a", "d", "m", "i", "n", ".", "c", "o", "m">>}

\* GET /dashboard/totals by the account current_user.
GetDashboardTotals(p, current_user) ==
    /\ Idle(p)
    /\ FindOne(users, current_user) # None
    /\ response' =
         IF ~is_admin(FindOne(users, current_user)[1])
         THEN <<[status |-> 403, op |-> "get_dashboard_totals", user_id |-> current_user]>>
         ELSE <<[status |-> 200, op |-> "get_dashboard_totals", user_id |-> current_user,
                 total_users |-> Len(users), total_posts |-> Len(blogs),
                 total_comments |-> Len(comments), total_likes |-> Len(likes)]>>
    /\ UNCHANGED <<blogs, tags, user_interests, comments, likes, images, users, issued, calls,
                   recommendations, blog_summaries>>

DashboardNext ==
    \E p \in Procs :
        \/ \E n \in RegisterUsernames, e \in RegisterEmails : RegisterFindEmail(p, n, e)
        \/ RegisterFindUsername(p)
        \/ RegisterInsert(p)
        \/ \E u \in UserIds : GetDashboardTotals(p, u)

DashboardSpec == AccountInit /\ [][DashboardNext]_vars

(* --------------- routers/images.py and the cascade of delete_blog ------- *)

\* A BSON value is equal to another of the same type only: create_blog
\* stores user_id as ObjectId(current_user.id), current_user.id is a str.
ObjectIdOf(v) == [type |-> "objectId", value |-> v]
StringOf(v) == [type |-> "string", value |-> v]
BsonEquals(x, y) == x.type = y.type /\ x.value = y.value

\* find_one({"_id": ObjectId(blog_id), "user_id": current_user.id}) finds a blog.
FindBlogOfUser(blog_id, current_user) ==
    \E i \in DOMAIN blogs :
        /\ blogs[i]._id = blog_id
        /\ BsonEquals(ObjectIdOf(blogs[i].user_id), StringOf(current_user))

\* add_images_to_blog: 400, then 404 when the filter finds no blog, else the
\* blog's image record is updated or inserted.
AddImagesToBlog(p, blog_id, current_user) ==
    /\ Idle(p)
    /\ IF blog_id = InvalidId
       THEN response' = <<Answer("add_images_to_blog", 400)>> /\ images' = images
       ELSE IF ~FindBlogOfUser(blog_id, current_user)
       THEN response' = <<Answer("add_images_to_blog", 404)>> /\ images' = images
       ELSE /\ images' = IF \E i \in DOMAIN images : images[i].blog_id = blog_id
                         THEN images
                         ELSE Append(images, [_id |-> NewId(images, "image_id"),
                                              blog_id |-> blog_id])
            /\ response' = <<Answer("add_images_to_blog", 200)>>
    /\ UNCHANGED <<blogs, tags, user_interests, comments, likes, users, issued, calls,
                   recommendations, blog_summaries>>

CascadeNext ==
    \E p \in Procs :
        \/ \E b \in BlogIdInputs, u \in Members : DeleteBlogFind(p, b, u)
        \/ DeleteBlogComments(p)
        \/ DeleteBlogLikes(p)
        \/ DeleteBlogImages(p)
        \/ DeleteBlogDelete(p)
        \/ \E b \in BlogIdInputs, u \in Members : CreateCommentFind(p, b, u)
        \/ CreateCommentInsert(p)
        \/ CreateCommentInc(p)
        \/ \E b \in BlogIdInputs, l \in BOOLEAN, u \in Members : ToggleLikeFind(p, b, l, u)
        \/ ToggleLikeWrite(p)
        \/ \E b \in BlogIdInputs, u \in Members : AddImagesToBlog(p, b, u)

\* One blog of the user, without comments, likes and images.
CascadeSpec == CommentInit /\ [][CascadeNext]_vars

(* ------------- routers/blog_summaries.py, services.AIService ----------- *)

\* blog_summaries: the stored summary documents.

\* BlogSummaryResponse(**summary_data): the summary of the blog's content
\* and title; the blog document keeps its text under blog_body, so that
\* blog.get("content", "") is the default.
SummaryOf(blog_id, blog) ==
    [blog_id |-> blog_id,
     summary |-> [content |-> Get(blog, "content", {}), title |-> Get(blog, "title", {})]]

\* AIService.create_blog_summary after generate_summary: the summary
\* document is made and returned; the collection is as it was.
create_blog_summary(summary_data) == blog_summaries

\* AIService.get_blog_summary: find_one({"blog_id": blog_id})
get_blog_summary(blog_id) ==
    LET hits == {i \in DOMAIN blog_summaries : blog_summaries[i].blog_id = blog_id}
    IN  IF hits = {} THEN None
        ELSE Some(blog_summaries[CHOOSE i \in hits : \A j \in hits : i <= j])

\* generate_blog_summary up to the check of the published flag.
GenerateBlogSummaryFind(p, blog_id, current_user) ==
    /\ Idle(p)
    /\ IF blog_id = InvalidId
       THEN response' = <<Answer("generate_blog_summary", 400)>> /\ calls' = calls
       ELSE IF FindOne(blogs, blog_id) = None
       THEN response' = <<Answer("generate_blog_summary", 404)>> /\ calls' = calls
       ELSE IF ~Get(FindOne(blogs, blog_id)[1], "published", FALSE)
       THEN response' = <<Answer("generate_blog_summary", 400)>> /\ calls' = calls
       ELSE /\ calls' = Proceed(p, [op |-> "generate_blog_summary",
                                    pc |-> "create_blog_summary", blog_id |-> blog_id,
                                    blog |-> FindOne(blogs, blog_id)[1]])
            /\ response' = response
    /\ UNCHANGED <<blogs, tags, user_interests, comments, likes, images, users, issued,
                   recommendations, blog_summaries>>

\* generate_blog_summary from create_blog_summary: the model call fails
\* (500) or gives a text, which is answered.
GenerateBlogSummaryCreate(p, generated) ==
    /\ At(p, "generate_blog_summary", "create_blog_summary")
    /\ IF ~generated
       THEN /\ response' = <<Answer("generate_blog_summary", 500)>>
            /\ blog_summaries' = blog_summaries
       ELSE /\ blog_summaries' = create_blog_summary(SummaryOf(Call(p).blog_id, Call(p).blog))
            /\ response' = <<[status |-> 200, op |-> "generate_blog_summary",
                              summary |-> SummaryOf(Call(p).blog_id, Call(p).blog)]>>
    /\ calls' = Finish(p)
    /\ UNCHANGED <<blogs, tags, user_interests, comments, likes, images, users, issued,
                   recommendations>>

\* get_blog_summary up to the lookup of the published blog.
GetBlogSummaryFind(p, blog_id) ==
    /\ Idle(p)
    /\ IF blog_id = InvalidId
       THEN response' = <<Answer("get_blog_summary", 400)>> /\ calls' = calls
       ELSE IF \/ FindOne(blogs, blog_id) = None
               \/ ~Get(FindOne(blogs, blog_id)[1], "published", FALSE)
       THEN response' = <<Answer("get_blog_summary", 404)>> /\ calls' = calls
       ELSE /\ calls' = Proceed(p, [op |-> "get_blog_summary", pc |-> "get_blog_summary",
                                    blog_id |-> blog_id])
            /\ response' = response
    /\ UNCHANGED <<blogs, tags, user_interests, comments, likes, images, users, issued,
                   recommendations, blog_summaries>>

\* get_blog_summary from AIService.get_blog_summary: the summary or 404.
GetBlogSummaryAnswer(p) ==
    /\ At(p, "get_blog_summary", "get_blog_summary")
    /\ response' =
         IF get_blog_summary(Call(p).blog_id) = None
         THEN <<[status |-> 404, op |-> "get_blog_summary", blog_id |-> Call(p).blog_id]>>
         ELSE <<[status |-> 200, op |-> "get_blog_summary", blog_id |-> Call(p).blog_id,
                 summary |-> get_blog_summary(Call(p).blog_id)[1]]>>
    /\ calls' = Finish(p)
    /\ UNCHANGED <<blogs, tags, user_interests, comments, likes, images, users, issued,
                   recommendations, blog_summaries>>

\* delete_blog_summary: 400, then 404 for no blog; then current_user["_id"]
\* on the UserInDB object that get_current_user gives raises TypeError,
\* which the handler answers 500.
DeleteBlogSummary(p, blog_id, current_user) ==
    /\ Idle(p)
    /\ response' =
         IF blog_id = InvalidId THEN <<Answer("delete_blog_summary", 400)>>
         ELSE IF FindOne(blogs, blog_id) = None THEN <<Answer("delete_blog_summary", 404)>>
         ELSE <<Answer("delete_blog_summary", 500)>>
    /\ UNCHANGED <<blogs, tags, user_interests, comments, likes, images, users, issued, calls,
                   recommendations, blog_summaries>>

\* A published blog and a draft, no summary.
SummaryInit ==
    /\ blogs \in {<<[NewBlog(1, TheUser) EXCEPT !.title = title],
                      [NewBlog(2, TheUser) EXCEPT !.published = FALSE]>> :
                       title \in TitleWords}
    /\ tags = TagNames
    /\ user_interests = <<>>
    /\ comments = <<>>
    /\ likes = <<>>
    /\ NoOtherState
    /\ response = <<>>
    /\ recommendations = <<>>

SummaryBlogIds == {InvalidId, 1, 2, UnknownId}

SummaryNext ==
    \E p \in Procs :
        \/ \E b \in SummaryBlogIds, u \in Members : GenerateBlogSummaryFind(p, b, u)
        \/ \E generated \in BOOLEAN : GenerateBlogSummaryCreate(p, generated)
        \/ \E b \in SummaryBlogIds : GetBlogSummaryFind(p, b)
        \/ GetBlogSummaryAnswer(p)
        \/ \E b \in SummaryBlogIds, u \in Members : DeleteBlogSummary(p, b, u)

SummarySpec == SummaryInit /\ [][SummaryNext]_vars

(* ---------------- routers/tags.py: delete_tag, and create_blog --------- *)

\* update_many({"tag_ids": tag_id}, {"$pull": {"tag_ids": tag_id}})
PullTag(collection, tag_id) ==
    LET Other(id) == id # tag_id
    IN  [i \in DOMAIN collection |->
            IF "tag_ids" \in DOMAIN collection[i]
            THEN [collection[i] EXCEPT !.tag_ids = SelectSeq(@, Other)]
            ELSE collection[i]]

\* delete_tag up to the lookup of the tag.
DeleteTagFind(p, tag_id, current_user) ==
    /\ Idle(p)
    /\ IF tag_id = InvalidId
       THEN response' = <<Answer("delete_tag", 400)>> /\ calls' = calls
       ELSE IF tag_id \notin DOMAIN tags
       THEN response' = <<Answer("delete_tag", 404)>> /\ calls' = calls
       ELSE /\ calls' = Proceed(p, [op |-> "delete_tag", pc |-> "update_many",
                                    tag_id |-> tag_id])
            /\ response' = response
    /\ UNCHANGED <<blogs, tags, user_interests, comments, likes, images, users, issued,
                   recommendations, blog_summaries>>

\* delete_tag: the tag is pulled from every blog that has it.
DeleteTagPull(p) ==
    /\ At(p, "delete_tag", "update_many")
    /\ blogs' = PullTag(blogs, Call(p).tag_id)
    /\ calls' = Proceed(p, [Call(p) EXCEPT !.pc = "delete_one"])
    /\ UNCHANGED <<tags, user_interests, comments, likes, images, users, issued, response,
                   recommendations, blog_summaries>>

\* delete_tag: delete_one of the tag, and the answer.
DeleteTagDelete(p) ==
    /\ At(p, "delete_tag", "delete_one")
    /\ tags' = [id \in DOMAIN tags \ {Call(p).tag_id} |-> tags[id]]
    /\ calls' = Finish(p)
    /\ response' = <<Answer("delete_tag", 200)>>
    /\ UNCHANGED <<blogs, user_interests, comments, likes, images, users, issued,
                   recommendations, blog_summaries>>

\* create_blog: the valid tag ids of the request are stored as they are.
CreateBlog(p, tag_ids, current_user) ==
    /\ Idle(p)
    /\ Len(blogs) < MaxBlogs
    /\ blogs' = Append(blogs, [NewBlog(NewId(blogs, "blog_id"), current_user)
                                  EXCEPT !.tag_ids = ValidTagIds(tag_ids)])
    /\ response' = <<Answer("create_blog", 200)>>
    /\ UNCHANGED <<tags, user_interests, comments, likes, images, users, issued, calls,
                   recommendations, blog_summaries>>

\* The tag lists of the requests.
TagIdInputs == {<<>>, <<1>>, <<InvalidId, 1>>}
TagUpdates == {[tag_ids |-> tag_ids] : tag_ids \in TagIdInputs}

\* One tag, and one blog that has it.
TagInit ==
    /\ blogs = <<[NewBlog(1, TheUser) EXCEPT !.tag_ids = <<1>>]>>
    /\ tags = TagNames
    /\ user_interests = <<>>
    /\ comments = <<>>
    /\ likes = <<>>
    /\ NoOtherState
    /\ response = <<>>
    /\ recommendations = <<>>

TagNext ==
    \E p \in Procs :
        \/ \E t \in BlogIdInputs, u \in Members : DeleteTagFind(p, t, u)
        \/ DeleteTagPull(p)
        \/ DeleteTagDelete(p)
        \/ \E l \in TagIdInputs, u \in Members : CreateBlog(p, l, u)
        \/ \E b \in BlogIdInputs, d \in TagUpdates, u \in Members : UpdateBlogFind(p, b, d, u)
        \/ UpdateBlogWrite(p)

TagSpec == TagInit /\ [][TagNext]_vars

(* ============================== claims ================================ *)

\* The response in hand, when there is one.
R == response[1]
Served == response # <<>> /\ R.status = 200

\* ceil(total / size): the least n with n * size >= total.
Ceil(total, size) == CHOOSE n \in 0..total : n * size >= total /\ \A m \in 0..(n - 1) : m * size < total

\* The ranks (1-based) of page p of size ps in a sequence of total items.
RanksOfPage(p, ps, total) == ((p - 1) * ps + 1)..Min(p * ps, total)

\* The page a handler cuts from a ranked sequence.
PageOf(op, ranked, page, page_size) ==
    IF op = "search_blogs" THEN Paginate(ranked, page, page_size)
    ELSE ServicePage(ranked, page, page_size)

\* C1: a returned page p in 1..total_pages holds exactly the items at ranks
\* (p-1)*page_size+1 .. min(p*page_size, total_count) of the ranked
\* sequence, in order, and the pages 1..total_pages put one after the other
\* are the ranked sequence: no post twice, none left out.
C1_PageIsItsRanks ==
    Served =>
        LET ranks == RanksOfPage(R.page, R.page_size, R.total_count)
        IN  /\ R.total_count = Len(recommendations)
            /\ R.page \in 1..R.total_pages =>
                 /\ Len(R.blogs) = Cardinality(ranks)
                 /\ \A i \in 1..Len(R.blogs) :
                      R.blogs[i] = recommendations[(R.page - 1) * R.page_size + i]
            /\ Concat([q \in 1..R.total_pages |->
                         PageOf(R.op, recommendations, q, R.page_size)])
                 = recommendations
            /\ \A i, j \in DOMAIN recommendations :
                 recommendations[i].blog.id = recommendations[j].blog.id => i = j

\* C1 witness: search_blogs returned the partial last page (page 2 of size 2
\* over 3 ranked posts), as in page 3 of size 10 over 25.
C1_Witness ==
    /\ Served
    /\ R.op = "search_blogs"
    /\ R.total_count = 3 /\ R.page_size = 2 /\ R.page = 2
    /\ Len(R.blogs) = 1

C3_RejectedIffBelowOne ==
    response # <<>> =>
        (R.status = 422 <=> (R.request.page < 1 \/ R.request.page_size < 1))

\* C3 amended: a request is rejected (422, no result) exactly when page < 1
\* or page_size < 1 or page_size > 100; an accepted request is answered for
\* the page and page_size it asked for, never for clamped ones.
C3_RejectedIffOutOfRange ==
    response # <<>> =>
        /\ R.status \in {200, 422}
        /\ R.status = 422 <=>
             (R.request.page < 1 \/ R.request.page_size < 1 \/ R.request.page_size > 100)
        /\ R.status = 422 => "blogs" \notin DOMAIN R /\ recommendations = <<>>
        /\ R.status = 200 => R.page = R.request.page /\ R.page_size = R.request.page_size

\* C3 witness: page_size 101 with a valid page was rejected.
C3_Witness ==
    /\ response # <<>>
    /\ R.status = 422
    /\ R.request.page >= 1 /\ R.request.page_size = 101

\* C4: a page beyond total_pages, with a valid page_size, is answered with
\* an empty slice and the total_count and total_pages of the candidate set,
\* never with an error.
C4_PageBeyondLastIsEmpty ==
    response # <<>> =>
        /\ (R.request.page >= 1 /\ R.request.page_size \in 1..100) => R.status = 200
        /\ (R.status = 200 /\ R.page > R.total_pages) =>
             /\ R.blogs = <<>>
             /\ R.total_count = Len(recommendations)
             /\ R.total_pages = Ceil(R.total_count, R.page_size)

\* C4 witness: search_blogs answered page 3 of size 2 over 3 posts.
C4_Witness ==
    /\ Served
    /\ R.op = "search_blogs"
    /\ R.total_count = 3 /\ R.page_size = 2 /\ R.total_pages = 2 /\ R.page = 3
    /\ R.blogs = <<>>

\* The interest list of the requesting user: empty for an anonymous request,
\* a user without a record and a record with an empty list.
RequesterInterests ==
    LET user == R.request.current_user
        docs == {i \in DOMAIN user_interests : user_interests[i].user_id = user}
    IN  IF user = NoUser \/ docs = {} THEN <<>>
        ELSE user_interests[CHOOSE i \in docs : \A j \in docs : i <= j].interests

\* The stored document of a ranked item.
DocOf(item) == blogs[CHOOSE i \in DOMAIN blogs : blogs[i]._id = item.blog.id]

SimilarityOf(item) ==
    calculate_content_similarity(RequesterInterests, DocOf(item).blog_body,
                                 DocOf(item).title, BlogTagNames(DocOf(item)))

EngagementOf(item) == calculate_engagement_score(DocOf(item))

\* C5: the relevance_score of every candidate is 0.8 * similarity + 0.2 *
\* engagement when the requesting user has a non-empty interest list, and
\* the engagement alone for an anonymous request, a user without interest
\* record and an empty interest list.
C5_ScoreIsBlendOrEngagement ==
    Served =>
        \A i \in DOMAIN recommendations :
            LET score == recommendations[i].relevance_score
                sim == SimilarityOf(recommendations[i])
                eng == EngagementOf(recommendations[i])
            IN  IF RequesterInterests # <<>>
                THEN 10 * sim.den * eng.den * score.num
                       = (8 * sim.num * eng.den + 2 * eng.num * sim.den) * score.den
                ELSE score.num * eng.den = eng.num * score.den

\* C5 witness: search_blogs scored, for a user with interests, a post with
\* both a matching term and engagement.
C5_Witness ==
    /\ Served
    /\ R.op = "search_blogs"
    /\ RequesterInterests # <<>>
    /\ \E i \in DOMAIN recommendations :
         /\ SimilarityOf(recommendations[i]).num > 0
         /\ EngagementOf(recommendations[i]).num > 0

\* C6: the ranked sequence, and so every page of it, is in descending order
\* of score.
C6_ScoreDescending ==
    Served =>
        /\ \A i, j \in DOMAIN recommendations :
             i < j => ScoreGe(recommendations[i].relevance_score,
                              recommendations[j].relevance_score)
        /\ \A i, j \in DOMAIN R.blogs :
             i < j => ScoreGe(R.blogs[i].relevance_score, R.blogs[j].relevance_score)

\* C6 witness: search_blogs ranked a newer post of higher score before an
\* older one of lower score.
C6_Witness ==
    /\ Served
    /\ R.op = "search_blogs"
    /\ Len(recommendations) >= 2
    /\ ScoreGt(recommendations[1].relevance_score, recommendations[2].relevance_score)
    /\ recommendations[1].blog.created_at > recommendations[2].blog.created_at

\* C7: of two candidates with identical score and different creation
\* timestamps, the newer one is ranked before the older one.
C7_NewerFirstOnTies ==
    Served =>
        \A i, j \in DOMAIN recommendations :
            (/\ i < j
             /\ ScoreEq(recommendations[i].relevance_score,
                        recommendations[j].relevance_score))
            => recommendations[i].blog.created_at > recommendations[j].blog.created_at

\* C8: ranking the same candidates with the same interests gives the same
\* scores in the same order, in whatever order the store enumerates them.
C8_SameOrderForEveryEnumeration ==
    Served =>
        LET ids == {recommendations[i].blog.id : i \in DOMAIN recommendations}
            interests == LookupInterests(R.request.current_user)
        IN  \A cursor \in Orderings(SelectIdx(blogs, ids)) :
                recommendations =
                    IF R.op = "search_blogs"
                    THEN SortByRelevance(Recommend(cursor, interests))
                    ELSE SortRanked(Recommend(cursor, interests))

\* An interest term occurs in the title or the tags of the item.
MatchesTitleOrTags(item) ==
    \E k \in DOMAIN RequesterInterests :
        RequesterInterests[k] \in item.blog.title \cup Range(item.blog.tags)

\* An interest term occurs in the title, the body or the tags of the item.
MatchesAnyText(item) ==
    \E k \in DOMAIN RequesterInterests :
        RequesterInterests[k] \in
            item.blog.title \cup item.blog.blog_body \cup Range(item.blog.tags)

Likes(i) == IF blogs[i].likes_count = Absent THEN 0 ELSE blogs[i].likes_count

Comments(i) == IF blogs[i].comment_count = Absent THEN 0 ELSE blogs[i].comment_count

\* C10: the engagement score lies in [0, 1], is 0 for a post whose likes
\* and comments are zero or absent, and does not decrease when likes or
\* comments grow.
C10_EngagementBoundedMonotone ==
    (response # <<>> /\ R.op = "calculate_engagement_score") =>
        /\ \A i \in DOMAIN recommendations :
             LET score == recommendations[i].relevance_score
             IN  /\ score.den > 0
                 /\ 0 <= score.num /\ score.num <= score.den
                 /\ (Likes(i) = 0 /\ Comments(i) = 0) => score.num = 0
        /\ \A i, j \in DOMAIN recommendations :
             (Likes(i) <= Likes(j) /\ Comments(i) <= Comments(j))
             => ScoreGe(recommendations[j].relevance_score,
                        recommendations[i].relevance_score)

\* C10 witness: two posts were scored, the second with more likes and more
\* comments than the first and a weighted sum beyond the cap; it scores
\* exactly 1 and the first scores strictly between 0 and 1.
C10_Witness ==
    /\ response # <<>>
    /\ R.op = "calculate_engagement_score"
    /\ Likes(1) < Likes(2) /\ Comments(1) < Comments(2)
    /\ Likes(2) + CommentWeight * Comments(2) > EngagementCap
    /\ recommendations[2].relevance_score.num = recommendations[2].relevance_score.den
    /\ 0 < recommendations[1].relevance_score.num
    /\ recommendations[1].relevance_score.num < recommendations[1].relevance_score.den

\* The stored documents the request of the response asked for, in store
\* order.
Requested ==
    LET Asked(blog) ==
            IF R.op = "search_blogs" THEN MatchesSearch(blog, R.request.query)
            ELSE MatchesFeed(blog, R.request.published_only, R.request.tag_id)
    IN  SelectSeq(blogs, Asked)

HasPostId(blog) == "_id" \in DOMAIN blog

\* The ranking of the given candidates by the operation of the response.
RankingOf(candidates) ==
    LET interests == LookupInterests(R.request.current_user)
    IN  IF R.op = "search_blogs" THEN SortByRelevance(Recommend(candidates, interests))
        ELSE SortRanked(Recommend(candidates, interests))

Completed(blog) ==
    [k \in DOMAIN blog \cup OptionalFields |->
        IF k \in DOMAIN blog THEN blog[k] ELSE IF k = "tag_ids" THEN <<>> ELSE {}]

\* C12: a request over candidates whose title, body or tags are absent does
\* not fail; every such candidate is in the ranked list, with the absent
\* fields empty and with the score of the same post with empty fields.
C12_AbsentFieldsAreEmpty ==
    response # <<>> =>
        /\ R.status = 200
        /\ Len(recommendations) = Len(Requested)
        /\ \A k \in DOMAIN Requested :
             \E i \in DOMAIN recommendations :
                LET item == recommendations[i]
                    whole == Completed(Requested[k])
                IN  /\ item.blog.id = whole._id
                    /\ item.blog.title = whole.title
                    /\ item.blog.blog_body = whole.blog_body
                    /\ item.blog.tag_ids = whole.tag_ids
                    /\ item.blog.tags = BlogTagNames(whole)
                    /\ ScoreEq(item.relevance_score,
                               TotalScore(whole, LookupInterests(R.request.current_user)))

\* C12 witness: search_blogs ranked, for a user with interests, a post that
\* has neither title nor tags, next to a post that has all its fields.
C12_Witness ==
    /\ Served
    /\ R.op = "search_blogs"
    /\ LookupInterests(R.request.current_user) # None
    /\ Len(recommendations) >= 2
    /\ \E k \in DOMAIN Requested :
         /\ DOMAIN Requested[k] \cap OptionalFields = {"blog_body"}
         /\ \E i \in DOMAIN recommendations :
              /\ recommendations[i].blog.id = Requested[k]._id
              /\ recommendations[i].relevance_score.num > 0

\* C13: a ranking request writes nothing: whenever get_blogs or
\* search_blogs answers, with a result or with a rejection, the blogs, tags,
\* interest records, comments and likes of the store are as they were.
C13_RankingWritesNothing ==
    [][(response = <<>> /\ response' # <<>>) =>
          /\ blogs' = blogs
          /\ tags' = tags
          /\ user_interests' = user_interests
          /\ comments' = comments
          /\ likes' = likes]_vars

\* C13 witness: search_blogs returned posts from a store that holds blogs,
\* a comment, a like and an interest record.
C13_Witness ==
    /\ Served
    /\ R.op = "search_blogs"
    /\ R.blogs # <<>>
    /\ comments # <<>> /\ likes # <<>> /\ user_interests # <<>>

\* The stored comments of a blog.
CommentsOf(blog) == {i \in DOMAIN comments : comments[i].blog_id = blog._id}

\* C14: whenever no comment operation is in progress, the comment_count of
\* every blog is non-negative and is the number of its stored comments.
C14_CommentCountIsNumberOfComments ==
    calls = NoCalls =>
        \A i \in DOMAIN blogs :
            /\ Get(blogs[i], "comment_count", 0) >= 0
            /\ Get(blogs[i], "comment_count", 0) = Cardinality(CommentsOf(blogs[i]))

\* The like records of a blog with isLiked = true.
LikesOf(blog) ==
    {i \in DOMAIN likes : likes[i].blog_id = blog._id /\ likes[i].isLiked}

\* C15: whenever no like operation is in progress, the likes_count of every
\* blog is non-negative and is the number of its like records with
\* isLiked = true.
C15_LikesCountIsNumberOfLikes ==
    calls = NoCalls =>
        \A i \in DOMAIN blogs :
            /\ Get(blogs[i], "likes_count", 0) >= 0
            /\ Get(blogs[i], "likes_count", 0) = Cardinality(LikesOf(blogs[i]))

\* C16: there is at most one interest record per user in every reachable
\* state.
C16_OneRecordPerUser ==
    \A u \in Members :
        Cardinality({i \in DOMAIN user_interests : user_interests[i].user_id = u}) <= 1

\* C17: every stored interest list is case-normalized and has no two
\* entries that are equal or differ in letter case only.
C17_ListsNormalizedAndDistinct ==
    \A r \in DOMAIN user_interests :
        LET list == user_interests[r].interests
        IN  /\ \A i \in DOMAIN list : list[i] = Lower(list[i])
            /\ \A i, j \in DOMAIN list : i # j => Lower(list[i]) # Lower(list[j])

\* The status that rejects a call on blog_id by current_user, or 0: 400
\* for a malformed identifier, else 404 for no such blog, else 403 for a
\* blog of another user.
RejectionOf(blog_id, current_user) ==
    IF blog_id = InvalidId THEN 400
    ELSE IF \A i \in DOMAIN blogs : blogs[i]._id # blog_id THEN 404
    ELSE IF \E i \in DOMAIN blogs :
               blogs[i]._id = blog_id /\ blogs[i].user_id # current_user THEN 403
    ELSE 0

\* C18: update_blog and delete_blog by a user who is not the owner answer
\* 403, after 400 for a malformed identifier and 404 for a blog that does
\* not exist, in that order; a rejected call changes neither the blog nor
\* its comments, likes and images.
C18_NonOwnerRejectedWithoutWrites ==
    [][\A p \in Procs, b \in OwnerBlogIds, u \in Members :
          LET code == RejectionOf(b, u)
          IN  /\ (code # 0 /\ \E d \in BlogUpdates : UpdateBlogFind(p, b, d, u))
                    => /\ response' = <<Answer("update_blog", code)>>
                       /\ UNCHANGED <<blogs, comments, likes, images>>
              /\ (code # 0 /\ DeleteBlogFind(p, b, u))
                    => /\ response' = <<Answer("delete_blog", code)>>
                       /\ UNCHANGED <<blogs, comments, likes, images>>]_vars

\* A non-owner's delete_blog was answered 403 with the blog, its comment,
\* like and image in the store.
C18_Witness ==
    /\ response = <<Answer("delete_blog", 403)>>
    /\ \E i \in DOMAIN blogs : blogs[i]._id = 1
    /\ \E i \in DOMAIN comments : comments[i].blog_id = 1
    /\ \E i \in DOMAIN likes : likes[i].blog_id = 1
    /\ \E i \in DOMAIN images : images[i].blog_id = 1

\* The token the user was issued most recently by login, google_login or
\* refresh_token, or NoToken.
LatestIssued(user) ==
    LET Issue(event) == event.user_id = user /\ event.token # NoToken
        issues == SelectSeq(issued, Issue)
    IN  IF issues = <<>> THEN NoToken ELSE issues[Len(issues)].token

\* The tokens presented in the refreshes that succeeded.
UsedTokens ==
    {t \in TokensIssued :
        \E i \in DOMAIN issued :
            issued[i].op = "refresh_token" /\ issued[i].presented = Some(t)}

C20_NoTokenAfterLogout ==
    \A u \in Members :
        LET Session(event) == event.user_id = u /\ event.op # "refresh_token"
            sessions == SelectSeq(issued, Session)
        IN  (sessions # <<>> /\ sessions[Len(sessions)].op = "logout")
                => FindOne(users, u)[1].refresh_token = NoToken

\* C21: a refresh token is presented in at most one refresh that succeeds.
C21_TokenRefreshedAtMostOnce ==
    \A i, j \in DOMAIN issued :
        (/\ issued[i].op = "refresh_token"
         /\ issued[j].op = "refresh_token"
         /\ issued[i].presented = issued[j].presented) => i = j

\* C22: no two user records share an email and no two share a username.
C22_EmailsAndUsernamesUnique ==
    \A i, j \in DOMAIN users :
        i # j => users[i].email # users[j].email /\ users[i].username # users[j].username

\* C27: every answer of a dashboard endpoint to an account that register
\* created is 403 and carries no data.
C27_RegisteredAccountIsNoAdmin ==
    \A i \in DOMAIN response :
        response[i].op = "get_dashboard_totals"
            => response[i].status = 403 /\ "total_users" \notin DOMAIN response[i]

\* C23: once the blog is deleted and no call is in progress, no comment,
\* like or image refers to it.
C23_NothingRefersToDeletedBlog ==
    (calls = NoCalls /\ FindOne(blogs, 1) = None)
        => /\ \A i \in DOMAIN comments : comments[i].blog_id # 1
           /\ \A i \in DOMAIN likes : likes[i].blog_id # 1
           /\ \A i \in DOMAIN images : images[i].blog_id # 1

\* C24: the summary that generate_blog_summary answered is stored, so that
\* get_blog_summary finds it for the same blog.
C24_GeneratedSummaryIsStored ==
    \A i \in DOMAIN response :
        (response[i].op = "generate_blog_summary" /\ response[i].status = 200)
            => get_blog_summary(response[i].summary.blog_id) = Some(response[i].summary)

\* C25: once the tag is deleted and no call is in progress, no blog has it
\* among its tag_ids.
C25_NoBlogHasDeletedTag ==
    (calls = NoCalls /\ 1 \notin DOMAIN tags)
        => \A i \in DOMAIN blogs : 1 \notin Range(Get(blogs[i], "tag_ids", <<>>))

\* C26: there is at most one like record per user and blog.
C26_OneLikePerUserAndBlog ==
    \A i, j \in DOMAIN likes :
        (likes[i].user_id = likes[j].user_id /\ likes[i].blog_id = likes[j].blog_id) => i = j

\* The stored posts that are published and have the query in title or body.
PublishedMatches(query) ==
    {i \in DOMAIN blogs :
        /\ "published" \in DOMAIN blogs[i] /\ blogs[i].published
        /\ \/ "title" \in DOMAIN blogs[i] /\ query \in blogs[i].title
           \/ "blog_body" \in DOMAIN blogs[i] /\ query \in blogs[i].blog_body}

\* C28: every post search_blogs returns is a published post that matches
\* the query, and total_count is the number of all such posts in the store
\* whatever page and page size were requested, so that a page shorter than
\* the result shows in total_count and total_pages.
C28_SearchReturnsPublishedMatches ==
    \A r \in DOMAIN response :
        (response[r].op = "search_blogs" /\ response[r].status = 200) =>
            LET answer == response[r]
                hits == PublishedMatches(answer.request.query)
            IN  /\ \A k \in DOMAIN answer.blogs :
                      \E i \in hits : blogs[i]._id = answer.blogs[k].blog.id
                /\ answer.total_count = Cardinality(hits)
                /\ Len(answer.blogs) <= answer.total_count
                /\ answer.total_pages * answer.page_size >= answer.total_count

\* A search answered one post of two published matches, with an
\* unpublished match in the store.
C28_Witness ==
    /\ response # <<>>
    /\ response[1].op = "search_blogs" /\ response[1].status = 200
    /\ Len(response[1].blogs) = 1 /\ response[1].total_count = 2
    /\ \E i \in DOMAIN blogs :
          ~blogs[i].published /\ response[1].request.query \in blogs[i].title

====
